---- MODULE Spec2Model ----
(***************************************************************************)
(* Zero-trust authorization core: the Redis-backed session store           *)
(* (SessionService), continuous access evaluation, risk throttling, the    *)
(* OPA decision cache, the protected-route hook chain and entitlement      *)
(* revocation.  Every Redis command is one atomic step; a call of a        *)
(* service method is the sequence of its commands, so concurrent calls     *)
(* interleave between commands exactly as awaited promises do.             *)
(***************************************************************************)
EXTENDS Integers, Sequences, FiniteSets, TLC

\* ------------------------------------------------------------------ bounds
MaxSessions == 2
MaxTime == 57600

\* ------------------------------------------------------- program constants
SESSION_TTL_SECONDS == 60 * 60 * 8
INDEX_TTL_MARGIN == 60

Procs == {1, 2}
Subjects == {"u1", "u2"}
DeviceIds == {"d1"}
RiskLevels == {"LOW", "MEDIUM", "HIGH", "CRITICAL"}
NoExpiry == -1

VARIABLES
  now,        \* clock, seconds
  sessionKV,  \* Redis keys session:{id}: id -> [val, exp]; DOMAIN = existing keys
  indexKV,    \* Redis keys subject:sessions:{S}: S -> [members, exp]
  nextId,     \* number of session ids randomUUID() has produced
  auditLog,   \* events accepted by audit.log
  pc,         \* per process: the Redis command (or step) it executes next
  stack,      \* per process: return labels of the calls in progress
  loc,        \* per process: locals of the calls in progress
  issued,     \* ids returned by a completed create
  revokedOne, \* ids for which a revoke(id) that found the session has returned
  revokedAll, \* ids in the snapshot of a revokeAllForSubject that has returned
  raced,      \* ids whose create wrote first after a revokeAllForSubject of the
              \* same subject had read the index and before it returned
  criticalDone, \* ids for which a request whose evaluation computed CRITICAL has completed
  rateKV,     \* Redis keys rate:{sessionId}: id -> [val, exp]
  entKV,      \* entitlement table: id -> [subjectId, status, ...]
  opaKV,      \* Redis keys opa:{hash(input)}: key -> [val, exp]
  policyOn,   \* whether the bundle the policy engine has loaded still grants
  reqs,       \* number of requests that have arrived on the protected route
  admitLog,   \* the times at which riskThrottle let a request pass, in order
  winAdmits,  \* per live rate key and risk level: requests passed since the key was created
  lastHit,    \* the latest decision authorizeWithCache returned from the cache
  chainEvents, \* ImmutableAuditLog.events
  chainLast,   \* ImmutableAuditLog.lastHash
  forged,      \* a copy of the events an insider has tampered with
  forgedBy,    \* how the copy was obtained: "none", "delete", "swap" or "mutate"
  authzAudit,  \* rows of the authzAudit table: [sessionId, decision]
  authzAlerts, \* records whose insert failed and was reported with console.error
  sinkUp,      \* whether the audit sink (table, queue) currently accepts writes
  callerErrors, \* operations out of which an audit error was thrown to the caller
  jobs,       \* auditQueue: the jobs added, [payload, attemptsMade, state]
  auditDb,    \* rows of the AuditLog table
  faults,     \* the backends that are failing: "opa", "session", "rate"
  riskSignals, \* RiskEngine.evaluate: severities of the signals passed in
  riskProfile, \* RiskEngine.evaluate: the profile returned, [score, level]
  returned,   \* what the last completed call gave its caller: [op, value, events]
  nonceKV,    \* Redis keys anti-replay:{sha256(nonce)}: nonce -> [val, exp]
  accepted,   \* verifyAndStore calls that returned without raising: nonce -> times
  userRoleTable \* prisma.userRole: userId -> the roles that have a row

\* the audit sink and what it has to show
audits == <<authzAudit, authzAlerts, sinkUp, callerErrors>>

\* the audit queue, the failing backends, the risk engine on its own
\* results handed to callers, and the anti-replay store
more == <<returned, nonceKV, accepted, userRoleTable>>

extra == <<jobs, auditDb, faults, riskSignals, riskProfile, more>>

\* the state of the components beside the request pipeline
aux == <<chainEvents, chainLast, forged, forgedBy, audits, extra>>

\* the state outside the session store
other == <<rateKV, entKV, opaKV, policyOn, reqs, admitLog, winAdmits, lastHit, aux>>

vars == <<now, sessionKV, indexKV, nextId, auditLog, pc, stack, loc,
          issued, revokedOne, revokedAll, raced, criticalDone, other>>

\* ------------------------------------------------------------------ helpers
SessionId(n) == n

NullSession ==
  [id |-> 0, subjectId |-> "", deviceId |-> "", createdAt |-> 0, expiresAt |-> 0,
   revokedAt |-> 0, riskLevel |-> "", mfaVerified |-> FALSE, lastEvaluatedAt |-> 0]

\* request.opaInput before buildOpaInput has run; the decision before the engine answered
NoInput == [riskLevel |-> "", mfa_verified |-> FALSE]
NoDecision == [allow |-> FALSE, evalAt |-> -1]

\* locals of a service call (sid .. t) and the context of the request that a
\* worker is serving (route .. hooks); ent, before: the entitlement a revoke call
\* is about and the subject's sessions that existed when it was called; limit,
\* count: the cap riskThrottle chose and the value INCR returned; opaInput,
\* decision: the policy input built and the engine's answer to it; user, action:
\* request.user and the action of enforce(action); req: the number of the
\* request; cancelled: the client has gone or the deadline has passed; roles,
\* existingRoles: the roles assignRoles was called with (those not yet upserted)
\* and the roles it read
\* request.user is not set
NoUser == [id |-> "", roles |-> {}]

NoLocals ==
  [sid |-> 0, subj |-> "", raw |-> NullSession, ids |-> {}, level |-> "", t |-> 0,
   route |-> "", token |-> 0, hdrDev |-> "", auto |-> FALSE,
   session |-> NullSession, risk |-> "", status |-> 0, hooks |-> << >>,
   ent |-> 0, before |-> {},
   limit |-> 0, count |-> 0, opaInput |-> NoInput, decision |-> NoDecision,
   failed |-> "", user |-> NoUser, action |-> "", req |-> 0, cancelled |-> FALSE,
   roles |-> {}, existingRoles |-> {}]

\* no decision has been served from the cache yet
NoHit == [at |-> -1, evalAt |-> -1, allow |-> FALSE]

\* Date.now() in milliseconds
DateNow == now * 1000

\* Redis removes a key whose expiry instant has passed
Live(kv, t) == [k \in {x \in DOMAIN kv : kv[x].exp = NoExpiry \/ kv[x].exp > t} |-> kv[k]]

\* DEL key / DEL k1 k2 ...
DelKeys(kv, ks) == [k \in (DOMAIN kv) \ ks |-> kv[k]]

\* SET key value EX ttl
SetEx(kv, k, v, ttl) ==
  [x \in (DOMAIN kv) \cup {k} |-> IF x = k THEN [val |-> v, exp |-> now + ttl] ELSE kv[x]]

\* SET key value KEEPTTL: an existing key keeps its expiry, a new key has none
SetKeepTtl(kv, k, v) ==
  [x \in (DOMAIN kv) \cup {k} |->
     IF x = k
       THEN [val |-> v, exp |-> IF k \in DOMAIN kv THEN kv[k].exp ELSE NoExpiry]
       ELSE kv[x]]

\* SADD key member: creates the set (without expiry) when the key is absent
Sadd(kv, k, m) ==
  [x \in (DOMAIN kv) \cup {k} |->
     IF x = k
       THEN IF k \in DOMAIN kv
              THEN [members |-> kv[k].members \cup {m}, exp |-> kv[k].exp]
              ELSE [members |-> {m}, exp |-> NoExpiry]
       ELSE kv[x]]

\* SREM key member: Redis deletes a set that becomes empty
Srem(kv, k, m) ==
  IF k \notin DOMAIN kv THEN kv
  ELSE IF kv[k].members \ {m} = {} THEN DelKeys(kv, {k})
  ELSE [kv EXCEPT ![k].members = @ \ {m}]

\* EXPIRE key ttl: no effect on an absent key
Expire(kv, k, ttl) ==
  IF k \in DOMAIN kv THEN [kv EXCEPT ![k].exp = now + ttl] ELSE kv

\* SMEMBERS key
Smembers(kv, k) == IF k \in DOMAIN kv THEN kv[k].members ELSE {}

\* GET session:{id} followed by JSON.parse, or null
RedisGet(id) == IF id \in DOMAIN sessionKV THEN sessionKV[id].val ELSE NullSession

\* SessionService.get(sessionId)
SessionGet(id) == RedisGet(id)

Absent(id) == SessionGet(id) = NullSession

\* return from the current call with `st` the stack of pending continuations
ReturnTo(p, st) ==
  IF st = << >>
    THEN /\ pc' = [pc EXCEPT ![p] = "idle"]
         /\ loc' = [loc EXCEPT ![p] = NoLocals]
         /\ stack' = [stack EXCEPT ![p] = << >>]
    ELSE /\ pc' = [pc EXCEPT ![p] = Head(st)]
         /\ stack' = [stack EXCEPT ![p] = Tail(st)]
         /\ UNCHANGED loc

Return(p) == ReturnTo(p, stack[p])

\* the response has been written, or the request fell through to its end
Finish(p) == ReturnTo(p, << >>)

Goto(p, label) == pc' = [pc EXCEPT ![p] = label] /\ UNCHANGED stack

AllIdle == \A p \in Procs : pc[p] = "idle"

\* a caller issues a new call on an idle worker (the lowest idle one)
CanStart(p) == pc[p] = "idle" /\ \A q \in Procs : q < p => pc[q] # "idle"

\* ------------------------------------------------------------------- Init
\* lastHash of an empty log; digests are numbered from 1
GENESIS == 0

\* the components beside the pipeline as constructed
\* no call has completed
NoReturn == [op |-> "none", value |-> 0, events |-> {}]

MoreInit ==
  /\ returned = NoReturn
  /\ nonceKV = << >>
  /\ accepted = << >>
  /\ userRoleTable = [u \in Subjects |-> {}]

\* RiskEngine.evaluate has not returned
NoProfile == [score |-> 0, level |-> "none"]

AuxInit ==
  /\ chainEvents = << >>
  /\ chainLast = GENESIS
  /\ forged = << >>
  /\ forgedBy = "none"
  /\ authzAudit = {}
  /\ authzAlerts = {}
  /\ sinkUp = TRUE
  /\ callerErrors = {}
  /\ jobs = << >>
  /\ auditDb = {}
  /\ faults = {}
  /\ riskSignals = << >>
  /\ riskProfile = NoProfile
  /\ MoreInit

\* the store, the counters and the caches are empty, every worker is idle
StoreInit ==
  /\ now = 0
  /\ sessionKV = << >>
  /\ indexKV = << >>
  /\ nextId = 0
  /\ auditLog = {}
  /\ pc = [p \in Procs |-> "idle"]
  /\ stack = [p \in Procs |-> << >>]
  /\ loc = [p \in Procs |-> NoLocals]
  /\ issued = {}
  /\ revokedOne = {}
  /\ revokedAll = {}
  /\ raced = {}
  /\ criticalDone = {}
  /\ rateKV = << >>
  /\ entKV = << >>
  /\ opaKV = << >>
  /\ policyOn = TRUE
  /\ reqs = 0
  /\ admitLog = << >>
  /\ winAdmits = << >>
  /\ lastHit = NoHit

Init == StoreInit /\ AuxInit

\* a revokeAllForSubject(subj) has read the index members and not yet returned
SnapshotHeld(subj) ==
  \E q \in Procs : pc[q] \in {"ra_delkeys", "ra_delindex", "ra_audit"} /\ loc[q].subj = subj

\* ------------------------------------------------------------- audit.log
\* everything outside the session store but the errors thrown to callers
otherButErrors ==
  <<rateKV, entKV, opaKV, policyOn, reqs, admitLog, winAdmits, lastHit,
    chainEvents, chainLast, forged, forgedBy, authzAudit, authzAlerts, sinkUp, extra>>

\* audit.log keeps emission errors to itself (they surface as alerts only)
AuditLogThrows == FALSE

\* this call of audit.log rejects
AuditRejects == ~sinkUp /\ AuditLogThrows

\* await audit.log(event) inside operation `op`: the event reaches the log when
\* the sink takes it
AuditStep(event, op) ==
  /\ auditLog' = IF sinkUp THEN auditLog \cup {event} ELSE auditLog
  /\ callerErrors' = IF AuditRejects THEN callerErrors \cup {op} ELSE callerErrors

\* ------------------------------------------------- SessionService.create
\* builds the session object (randomUUID, Date.now) and issues SET ... EX
CreateSet(p, subj, dev, mfa) ==
  /\ CanStart(p)
  /\ nextId < MaxSessions
  /\ LET id == SessionId(nextId + 1)
         s == [id |-> id, subjectId |-> subj, deviceId |-> dev,
               createdAt |-> DateNow,
               expiresAt |-> DateNow + SESSION_TTL_SECONDS * 1000,
               revokedAt |-> 0,
               riskLevel |-> "LOW", mfaVerified |-> mfa,
               lastEvaluatedAt |-> DateNow]
     IN /\ nextId' = nextId + 1
        /\ sessionKV' = SetEx(sessionKV, id, s, SESSION_TTL_SECONDS)
        /\ loc' = [loc EXCEPT ![p] = [NoLocals EXCEPT !.sid = id, !.subj = subj]]
        /\ raced' = IF SnapshotHeld(subj) THEN raced \cup {id} ELSE raced
  /\ Goto(p, "cr_sadd")
  /\ UNCHANGED <<now, indexKV, auditLog, issued, revokedOne, revokedAll, criticalDone, other>>

\* await redis.sadd(`subject:sessions:${session.subjectId}`, session.id)
CreateSadd(p) ==
  /\ pc[p] = "cr_sadd"
  /\ indexKV' = Sadd(indexKV, loc[p].subj, loc[p].sid)
  /\ Goto(p, "cr_expire")
  /\ UNCHANGED <<now, sessionKV, nextId, auditLog, loc, issued, revokedOne, revokedAll, raced, criticalDone, other>>

\* await redis.expire(index, SESSION_TTL_SECONDS + 60); return session
CreateExpire(p) ==
  /\ pc[p] = "cr_expire"
  /\ indexKV' = Expire(indexKV, loc[p].subj, SESSION_TTL_SECONDS + INDEX_TTL_MARGIN)
  /\ issued' = issued \cup {loc[p].sid}
  /\ Return(p)
  /\ UNCHANGED <<now, sessionKV, nextId, auditLog, revokedOne, revokedAll, raced, criticalDone, other>>

\* ---------------------------------------------- SessionService.updateRisk
\* const raw = await redis.get(...); if (!raw) return;   (st: pending continuations)
UpdateRiskGet(p, sid, level, t, st) ==
  /\ IF Absent(sid)
       THEN ReturnTo(p, st)
       ELSE /\ loc' = [loc EXCEPT ![p].sid = sid, ![p].level = level, ![p].t = t,
                                  ![p].raw = RedisGet(sid)]
            /\ pc' = [pc EXCEPT ![p] = "ur_set"]
            /\ stack' = [stack EXCEPT ![p] = st]
  /\ UNCHANGED <<now, sessionKV, indexKV, nextId, auditLog, issued, revokedOne, revokedAll, raced, criticalDone, other>>

CallUpdateRisk(p, sid, level) ==
  /\ CanStart(p)
  /\ sid \in issued
  /\ UpdateRiskGet(p, sid, level, DateNow, << >>)

\* the record read, with riskLevel and lastEvaluatedAt replaced
UpdatedSession(p) ==
  [loc[p].raw EXCEPT !.riskLevel = loc[p].level, !.lastEvaluatedAt = loc[p].t]

\* await redis.set(`session:${session.id}`, JSON.stringify(session), "KEEPTTL")
UpdateRiskSet(p) ==
  /\ pc[p] = "ur_set"
  /\ sessionKV' = SetKeepTtl(sessionKV, loc[p].raw.id, UpdatedSession(p))
  /\ Return(p)
  /\ UNCHANGED <<now, indexKV, nextId, auditLog, issued, revokedOne, revokedAll, raced, criticalDone, other>>

\* --------------------------------------------------- SessionService.revoke
\* const raw = await redis.get(...); if (!raw) return;
RevokeGet(p, sid, st) ==
  /\ IF Absent(sid)
       THEN ReturnTo(p, st)
       ELSE /\ loc' = [loc EXCEPT ![p].sid = sid, ![p].raw = RedisGet(sid)]
            /\ pc' = [pc EXCEPT ![p] = "rv_del"]
            /\ stack' = [stack EXCEPT ![p] = st]
  /\ UNCHANGED <<now, sessionKV, indexKV, nextId, auditLog, issued, revokedOne, revokedAll, raced, criticalDone, other>>

CallRevoke(p, sid) ==
  /\ CanStart(p)
  /\ sid \in issued
  /\ RevokeGet(p, sid, << >>)

\* await redis.del(`session:${sessionId}`)
RevokeDel(p) ==
  /\ pc[p] = "rv_del"
  /\ sessionKV' = DelKeys(sessionKV, {loc[p].sid})
  /\ Goto(p, "rv_srem")
  /\ UNCHANGED <<now, indexKV, nextId, auditLog, loc, issued, revokedOne, revokedAll, raced, criticalDone, other>>

\* await redis.srem(`subject:sessions:${session.subjectId}`, sessionId)
RevokeSrem(p) ==
  /\ pc[p] = "rv_srem"
  /\ indexKV' = Srem(indexKV, loc[p].raw.subjectId, loc[p].sid)
  /\ Goto(p, "rv_audit")
  /\ UNCHANGED <<now, sessionKV, nextId, auditLog, loc, issued, revokedOne, revokedAll, raced, criticalDone, other>>

\* await audit.log({ action: "SESSION_REVOKED", ... })
RevokeAudit(p) ==
  /\ pc[p] = "rv_audit"
  /\ AuditStep([action |-> "SESSION_REVOKED", actorId |-> loc[p].raw.subjectId,
                target |-> loc[p].sid, count |-> 0], "SessionService.revoke")
  /\ IF AuditRejects
       THEN Finish(p) /\ UNCHANGED revokedOne
       ELSE revokedOne' = revokedOne \cup {loc[p].sid} /\ Return(p)
  /\ UNCHANGED <<now, sessionKV, indexKV, nextId, issued, revokedAll, raced, criticalDone,
                 otherButErrors>>

\* -------------------------------------- SessionService.revokeAllForSubject
\* const sessionIds = await redis.smembers(indexKey); if (length === 0) return;
RevokeAllSmembers(p, subj, st) ==
  /\ IF Smembers(indexKV, subj) = {}
       THEN ReturnTo(p, st)
       ELSE /\ loc' = [loc EXCEPT ![p].subj = subj, ![p].ids = Smembers(indexKV, subj)]
            /\ pc' = [pc EXCEPT ![p] = "ra_delkeys"]
            /\ stack' = [stack EXCEPT ![p] = st]
  /\ UNCHANGED <<now, sessionKV, indexKV, nextId, auditLog, issued, revokedOne, revokedAll, raced, criticalDone, other>>

CallRevokeAll(p, subj) ==
  /\ CanStart(p)
  /\ RevokeAllSmembers(p, subj, << >>)

\* await redis.del(...sessionKeys)
RevokeAllDelKeys(p) ==
  /\ pc[p] = "ra_delkeys"
  /\ sessionKV' = DelKeys(sessionKV, loc[p].ids)
  /\ Goto(p, "ra_delindex")
  /\ UNCHANGED <<now, indexKV, nextId, auditLog, loc, issued, revokedOne, revokedAll, raced, criticalDone, other>>

\* await redis.del(indexKey)
RevokeAllDelIndex(p) ==
  /\ pc[p] = "ra_delindex"
  /\ indexKV' = DelKeys(indexKV, {loc[p].subj})
  /\ Goto(p, "ra_audit")
  /\ UNCHANGED <<now, sessionKV, nextId, auditLog, loc, issued, revokedOne, revokedAll, raced, criticalDone, other>>

\* await audit.log({ action: "SESSIONS_REVOKED_SUBJECT", revokedCount })
RevokeAllAudit(p) ==
  /\ pc[p] = "ra_audit"
  /\ AuditStep([action |-> "SESSIONS_REVOKED_SUBJECT", actorId |-> loc[p].subj,
                target |-> 0, count |-> Cardinality(loc[p].ids)],
               "SessionService.revokeAllForSubject")
  /\ IF AuditRejects
       THEN Finish(p) /\ UNCHANGED revokedAll
       ELSE revokedAll' = revokedAll \cup loc[p].ids /\ Return(p)
  /\ UNCHANGED <<now, sessionKV, indexKV, nextId, issued, revokedOne, raced, criticalDone,
                 otherButErrors>>

\* ----------------------------------------------------------------- clock
\* time passes; keys whose TTL has run out disappear
Tick(d) ==
  /\ now + d <= MaxTime
  /\ now' = now + d
  /\ sessionKV' = Live(sessionKV, now + d)
  /\ indexKV' = Live(indexKV, now + d)
  /\ rateKV' = Live(rateKV, now + d)
  /\ opaKV' = Live(opaKV, now + d)
  /\ winAdmits' = [k \in (DOMAIN winAdmits) \cap (DOMAIN Live(rateKV, now + d)) |-> winAdmits[k]]
  /\ UNCHANGED <<nextId, auditLog, pc, stack, loc, issued, revokedOne, revokedAll, raced,
                 criticalDone, entKV, policyOn, reqs, admitLog, lastHit, aux>>

\* ------------------------------------------------------------ risk engine
SignalIp == [type |-> "IP_ANOMALY", severity |-> 3]
SignalDevice == [type |-> "DEVICE_MISMATCH", severity |-> 7]
SignalAutomation == [type |-> "BEHAVIOR_ANOMALY", severity |-> 6]

\* request.ip; a stored session carries no lastIp, so session.lastIp is undefined
ReqIp == "ip1"
LastIp(session) == ""

\* collectRiskSignals(req, session)
collectRiskSignals(hdrDev, auto, session) ==
  (IF ReqIp # LastIp(session) THEN <<SignalIp>> ELSE << >>)
  \o (IF session.deviceId # "" /\ hdrDev # session.deviceId THEN <<SignalDevice>> ELSE << >>)
  \o (IF auto THEN <<SignalAutomation>> ELSE << >>)

RECURSIVE SumScore(_)
\* signals.reduce((sum, s) => sum + s.severity * 5, 0)
SumScore(signals) ==
  IF signals = << >> THEN 0 ELSE Head(signals).severity * 5 + SumScore(Tail(signals))

Min(a, b) == IF a < b THEN a ELSE b

\* classify with the boundaries on the wrong side
classifyStrict(score) ==
  IF score > 80 THEN "CRITICAL"
  ELSE IF score > 60 THEN "HIGH"
  ELSE IF score > 30 THEN "MEDIUM"
  ELSE "LOW"

classify(score) ==
  IF score >= 80 THEN "CRITICAL"
  ELSE IF score >= 60 THEN "HIGH"
  ELSE IF score >= 30 THEN "MEDIUM"
  ELSE "LOW"

\* RiskEngine.evaluate(...).riskLevel
EvaluateLevel(signals) == classify(Min(SumScore(signals), 100))

\* ------------------------------------------------------------- hook chains
\* the throttle registered ahead of the evaluation
PluginHooksSwapped ==
  <<"requireSession", "enforceDeviceBinding", "riskThrottle",
    "continuousAccessEvaluation", "buildOpaInput", "opaAuthorize">>

\* fastify.addHook order of the security plugin
PluginHooks ==
  <<"requireSession", "enforceDeviceBinding", "continuousAccessEvaluation",
    "riskThrottle", "buildOpaInput", "opaAuthorize">>

\* app.use(requireSession, continuousAccessEvaluation)
CaeHooks == <<"requireSession", "continuousAccessEvaluation">>

\* app.use(riskThrottle), for a request the earlier hooks have passed
ThrottleHooks == <<"riskThrottle">>

\* app.use(buildOpaInput); app.use(opaAuthorize), for a request the earlier
\* hooks have passed
PolicyHooks == <<"buildOpaInput", "opaAuthorize">>

\* a route guarded by the session check alone
AuthHooks == <<"requireSession">>

\* a route registered with preHandler: enforce(action)
EnforceHooks == <<"enforce">>

Chain(route) ==
  IF route = "plugin" THEN PluginHooks
  ELSE IF route = "throttle" THEN ThrottleHooks
  ELSE IF route = "policy" THEN PolicyHooks
  ELSE IF route = "enforce" THEN EnforceHooks
  ELSE IF route = "auth" THEN AuthHooks
  ELSE CaeHooks

\* what runs after hook number i of the chain
After(route, i) == IF i = Len(Chain(route)) THEN "handler" ELSE Chain(route)[i + 1]

\* a hook runs on although a reply was sent
EndHookContinues(p, l) ==
  /\ pc' = [pc EXCEPT ![p] = After(l.route, Len(l.hooks))]
  /\ loc' = [loc EXCEPT ![p] = l]
  /\ UNCHANGED stack

\* a hook has returned: a reply that was sent (or an error thrown) ends the
\* request, otherwise the next hook of the chain (or the route handler) runs
EndHook(p, l) ==
  /\ pc' = [pc EXCEPT ![p] = IF l.status # 0 THEN "replied" ELSE After(l.route, Len(l.hooks))]
  /\ loc' = [loc EXCEPT ![p] = l]
  /\ UNCHANGED stack

\* the response has gone out: the worker is free again
ReplySent(p) ==
  /\ pc[p] = "replied"
  /\ Finish(p)
  /\ UNCHANGED <<now, sessionKV, indexKV, nextId, auditLog,
                 issued, revokedOne, revokedAll, raced, criticalDone, other>>

\* the hook starts running: it is the next entry of the request's hook trace
Enter(l, hook) == [l EXCEPT !.hooks = Append(@, hook)]

\* a request arrives; token = 0 stands for a missing or invalid access token
BeginRequest(p, route, token, hdrDev, auto) ==
  /\ CanStart(p)
  /\ loc' = [loc EXCEPT ![p] = [NoLocals EXCEPT !.route = route, !.token = token,
                                               !.hdrDev = hdrDev, !.auto = auto]]
  /\ pc' = [pc EXCEPT ![p] = Chain(route)[1]]
  /\ UNCHANGED <<now, sessionKV, indexKV, nextId, auditLog, stack,
                 issued, revokedOne, revokedAll, raced, criticalDone>>

StartRequest(p, route, token, hdrDev, auto) ==
  /\ BeginRequest(p, route, token, hdrDev, auto)
  /\ UNCHANGED other

\* a session check that trusts a verifying token without looking at the record
RequireSessionLax(p) ==
  /\ pc[p] = "requireSession"
  /\ LET l == Enter(loc[p], "requireSession")
     IN IF l.token = 0
          THEN EndHook(p, [l EXCEPT !.status = 401])
          ELSE EndHook(p, [l EXCEPT !.session = SessionGet(l.token)])
  /\ UNCHANGED <<now, sessionKV, indexKV, nextId, auditLog,
                 issued, revokedOne, revokedAll, raced, criticalDone, other>>

\* requireSession: token check, SessionService.get, revokedAt check
RequireSession(p) ==
  /\ pc[p] = "requireSession"
  /\ LET l == Enter(loc[p], "requireSession")
         session == SessionGet(l.token)
     IN IF l.token = 0 \/ session = NullSession \/ session.revokedAt # 0
          THEN EndHook(p, [l EXCEPT !.status = 401])
          ELSE EndHook(p, [l EXCEPT !.session = session])
  /\ UNCHANGED <<now, sessionKV, indexKV, nextId, auditLog,
                 issued, revokedOne, revokedAll, raced, criticalDone, other>>

\* ------------------------------------------- continuousAccessEvaluation
\* collectRiskSignals and RiskEngine.evaluate inside RiskService.assessSession
CaeEvaluate(p) ==
  /\ pc[p] = "continuousAccessEvaluation"
  /\ LET l == Enter(loc[p], "continuousAccessEvaluation")
         level == EvaluateLevel(collectRiskSignals(l.hdrDev, l.auto, l.session))
     IN /\ loc' = [loc EXCEPT ![p] = [l EXCEPT !.risk = level]]
        /\ Goto(p, IF level = "CRITICAL" THEN "cae_assess_revoke" ELSE "cae_update")
  /\ UNCHANGED <<now, sessionKV, indexKV, nextId, auditLog,
                 issued, revokedOne, revokedAll, raced, criticalDone, other>>

\* RiskService.assessSession: await revokeSession(profile.sessionId)
CaeAssessRevoke(p) ==
  /\ pc[p] = "cae_assess_revoke"
  /\ RevokeGet(p, loc[p].session.id, <<"cae_assess_audit">> \o stack[p])

\* RiskService.assessSession: audit.log SESSION_TERMINATED_HIGH_RISK
CaeAssessAudit(p) ==
  /\ pc[p] = "cae_assess_audit"
  /\ AuditStep([action |-> "SESSION_TERMINATED_HIGH_RISK",
                actorId |-> loc[p].session.subjectId, target |-> 0, count |-> 0],
               "RiskService.assessSession")
  /\ IF AuditRejects
       THEN EndHook(p, [loc[p] EXCEPT !.status = 500])
       ELSE Goto(p, "cae_update") /\ UNCHANGED loc
  /\ UNCHANGED <<now, sessionKV, indexKV, nextId,
                 issued, revokedOne, revokedAll, raced, criticalDone, otherButErrors>>

\* await SessionService.updateRisk({sessionId, riskLevel: profile.riskLevel, ...})
CaeUpdateRisk(p) ==
  /\ pc[p] = "cae_update"
  /\ UpdateRiskGet(p, loc[p].session.id, loc[p].risk, DateNow, <<"cae_attach">> \o stack[p])

\* the profile is attached and request.session.riskLevel is left as it was read
CaeAttachOnly(p) ==
  /\ pc[p] = "cae_attach"
  /\ IF loc[p].risk = "CRITICAL"
       THEN Goto(p, "cae_revoke") /\ UNCHANGED loc
       ELSE EndHook(p, loc[p])
  /\ UNCHANGED <<now, sessionKV, indexKV, nextId, auditLog,
                 issued, revokedOne, revokedAll, raced, criticalDone, other>>

\* request.risk = profile; request.session.riskLevel = profile.riskLevel
CaeAttach(p) ==
  /\ pc[p] = "cae_attach"
  /\ IF loc[p].risk = "CRITICAL"
       THEN /\ loc' = [loc EXCEPT ![p].session.riskLevel = loc[p].risk]
            /\ Goto(p, "cae_revoke")
       ELSE EndHook(p, [loc[p] EXCEPT !.session.riskLevel = loc[p].risk])
  /\ UNCHANGED <<now, sessionKV, indexKV, nextId, auditLog,
                 issued, revokedOne, revokedAll, raced, criticalDone, other>>

\* if CRITICAL: await SessionService.revoke(session.id)
CaeRevoke(p) ==
  /\ pc[p] = "cae_revoke"
  /\ RevokeGet(p, loc[p].session.id, <<"cae_reply">> \o stack[p])

\* return reply.code(403).send({ message: "Session terminated" })
CaeReply(p) ==
  /\ pc[p] = "cae_reply"
  /\ criticalDone' = criticalDone \cup {loc[p].session.id}
  /\ EndHook(p, [loc[p] EXCEPT !.status = 403])
  /\ UNCHANGED <<now, sessionKV, indexKV, nextId, auditLog,
                 issued, revokedOne, revokedAll, raced, other>>

\* ------------------------------------------------- enforceDeviceBinding
\* a binding check that asks for the header and never compares it
EnforceDeviceBindingLax(p) ==
  /\ pc[p] = "enforceDeviceBinding"
  /\ LET l == Enter(loc[p], "enforceDeviceBinding")
     IN IF l.hdrDev = ""
          THEN EndHook(p, [l EXCEPT !.status = 401])
          ELSE EndHook(p, l)
  /\ UNCHANGED <<now, sessionKV, indexKV, nextId, auditLog,
                 issued, revokedOne, revokedAll, raced, criticalDone, other>>

\* the hook body reads req and res where its parameters are request and reply.
\* Bound to the request and the reply, it compares the header with the session:
\*   if (!deviceId || deviceId !== session.deviceId) return res.status(401)...
EnforceDeviceBinding(p) ==
  /\ pc[p] = "enforceDeviceBinding"
  /\ LET l == Enter(loc[p], "enforceDeviceBinding")
     IN IF l.hdrDev = "" \/ l.hdrDev # l.session.deviceId
          THEN EndHook(p, [l EXCEPT !.status = 401])
          ELSE EndHook(p, l)
  /\ UNCHANGED <<now, sessionKV, indexKV, nextId, auditLog,
                 issued, revokedOne, revokedAll, raced, criticalDone, other>>

\* where req is unbound, `const session = req.session` throws a ReferenceError
\* and the framework's error handler answers 500
DeviceBindingThrows(p) ==
  /\ pc[p] = "enforceDeviceBinding"
  /\ EndHook(p, [Enter(loc[p], "enforceDeviceBinding") EXCEPT !.status = 500])
  /\ UNCHANGED <<now, sessionKV, indexKV, nextId, auditLog,
                 issued, revokedOne, revokedAll, raced, criticalDone, other>>

\* ----------------------------------------- riskThrottle, enforceRateLimit
RATE_WINDOW_SECONDS == 60
LIMIT_LOW == 1000
LIMIT_MEDIUM == 200
LIMIT_HIGH == 20
LIMIT_DEFAULT == 10

\* LIMITS[riskLevel] ?? 10
Limit(level) ==
  IF level = "LOW" THEN LIMIT_LOW
  ELSE IF level = "MEDIUM" THEN LIMIT_MEDIUM
  ELSE IF level = "HIGH" THEN LIMIT_HIGH
  ELSE LIMIT_DEFAULT

\* a counter that is created and then left as it is
IncrOnce(kv, k) == IF k \in DOMAIN kv THEN kv[k].val ELSE 1

\* the value INCR key returns
Incr(kv, k) == IF k \in DOMAIN kv THEN kv[k].val + 1 ELSE 1

\* the counter value the key holds, 0 when it does not exist
RateCount(sid) == IF sid \in DOMAIN rateKV THEN rateKV[sid].val ELSE 0

\* requests passed at `level` since the key rate:{sid} was created
WinAdmitted(wa, sid, level) ==
  IF sid \in DOMAIN wa /\ level \in DOMAIN wa[sid] THEN wa[sid][level] ELSE 0

\* record that riskThrottle let a request of session sid pass at `level`
NoteAdmit(wa, sid, level) ==
  [k \in (DOMAIN wa) \cup {sid} |->
     IF k = sid
       THEN [v \in (IF sid \in DOMAIN wa THEN DOMAIN wa[sid] ELSE {}) \cup {level} |->
               IF v = level THEN WinAdmitted(wa, sid, level) + 1 ELSE wa[sid][v]]
       ELSE wa[k]]

\* riskThrottle up to the call of enforceRateLimit
RiskThrottle(p) ==
  /\ pc[p] = "riskThrottle"
  /\ LET l == Enter(loc[p], "riskThrottle")
     IN IF l.session.riskLevel = "CRITICAL"
          THEN EndHook(p, [l EXCEPT !.status = 403])
          ELSE /\ loc' = [loc EXCEPT ![p] = [l EXCEPT !.limit = Limit(l.session.riskLevel)]]
               /\ Goto(p, "rt_incr")
  /\ UNCHANGED <<now, sessionKV, indexKV, nextId, auditLog,
                 issued, revokedOne, revokedAll, raced, criticalDone, other>>

\* every request passes
RateCheckOff(p, l) ==
  /\ EndHook(p, l)
  /\ admitLog' = Append(admitLog, now)
  /\ winAdmits' = NoteAdmit(winAdmits, l.session.id, l.session.riskLevel)

\* if (count > limit) throw new Error("RATE_LIMIT_EXCEEDED"): the error has no
\* status code and the framework's error handler answers 500; otherwise the
\* hook returns and the request has passed riskThrottle
RateCheck(p, l) ==
  IF l.count > l.limit
    THEN /\ EndHook(p, [l EXCEPT !.status = 500])
         /\ UNCHANGED <<admitLog, winAdmits>>
    ELSE /\ EndHook(p, l)
         /\ admitLog' = Append(admitLog, now)
         /\ winAdmits' = NoteAdmit(winAdmits, l.session.id, l.session.riskLevel)

\* const count = await redis.incr(key)
RateIncr(p) ==
  /\ pc[p] = "rt_incr"
  /\ LET sid == loc[p].session.id
         count == Incr(rateKV, sid)
         l == [loc[p] EXCEPT !.count = count]
     IN /\ rateKV' = SetKeepTtl(rateKV, sid, count)
        /\ IF count = 1
             THEN /\ loc' = [loc EXCEPT ![p] = l]
                  /\ Goto(p, "rt_expire")
                  /\ admitLog' = admitLog
                  /\ winAdmits' = [k \in (DOMAIN winAdmits) \ {sid} |-> winAdmits[k]]
             ELSE RateCheck(p, l)
  /\ UNCHANGED <<now, sessionKV, indexKV, nextId, auditLog,
                 issued, revokedOne, revokedAll, raced, criticalDone,
                 entKV, opaKV, policyOn, reqs, lastHit, aux>>

\* if (count === 1) await redis.expire(key, 60)
RateExpire(p) ==
  /\ pc[p] = "rt_expire"
  /\ rateKV' = Expire(rateKV, loc[p].session.id, RATE_WINDOW_SECONDS)
  /\ RateCheck(p, loc[p])
  /\ UNCHANGED <<now, sessionKV, indexKV, nextId, auditLog,
                 issued, revokedOne, revokedAll, raced, criticalDone,
                 entKV, opaKV, policyOn, reqs, lastHit, aux>>

\* --------------------------------------------- buildOpaInput, opaAuthorize
\* a policy that allows at MEDIUM whatever mfa_verified is
AdaptiveAllowLax(input) == input.riskLevel \in {"LOW", "MEDIUM"}

\* package authz.adaptive: allow at LOW, and at MEDIUM with mfa_verified
AdaptiveAllow(input) ==
  \/ input.riskLevel = "LOW"
  \/ input.riskLevel = "MEDIUM" /\ input.mfa_verified

\* opaClient.decide({ input }): the engine evaluates the bundle it has loaded
Decide(input) == policyOn /\ AdaptiveAllow(input)

\* request.opaInput = { subject: { mfa_verified }, risk: { riskLevel }, ... }
BuildOpaInput(p) ==
  /\ pc[p] = "buildOpaInput"
  /\ LET l == Enter(loc[p], "buildOpaInput")
     IN EndHook(p, [l EXCEPT !.opaInput = [riskLevel |-> l.session.riskLevel,
                                          mfa_verified |-> l.session.mfaVerified]])
  /\ UNCHANGED <<now, sessionKV, indexKV, nextId, auditLog,
                 issued, revokedOne, revokedAll, raced, criticalDone, other>>

\* const decision = await opaClient.decide(...); if (!decision.allow) reply 403
OpaAuthorize(p) ==
  /\ pc[p] = "opaAuthorize"
  /\ LET l == Enter(loc[p], "opaAuthorize")
         allow == Decide(l.opaInput)
         m == [l EXCEPT !.decision = [allow |-> allow, evalAt |-> now]]
     IN IF ~allow
          THEN EndHook(p, [m EXCEPT !.status = 403])
          ELSE EndHook(p, m)
  /\ UNCHANGED <<now, sessionKV, indexKV, nextId, auditLog,
                 issued, revokedOne, revokedAll, raced, criticalDone, other>>

\* the route handler runs and answers
Handler(p) ==
  /\ pc[p] = "handler"
  /\ Finish(p)
  /\ UNCHANGED <<now, sessionKV, indexKV, nextId, auditLog,
                 issued, revokedOne, revokedAll, raced, criticalDone, other>>

HeaderDevices == {"", "d1", "d2"}

\* ------------------- requests on the chain requireSession, evaluation
NextCae ==
  \/ \E p \in Procs, dev \in DeviceIds : CreateSet(p, "u1", dev, TRUE)
  \/ \E p \in Procs : CreateSadd(p)
  \/ \E p \in Procs : CreateExpire(p)
  \/ \E p \in Procs, token \in issued \cup {0}, hdrDev \in HeaderDevices \ {""}, auto \in BOOLEAN :
       StartRequest(p, "cae", token, hdrDev, auto)
  \/ \E p \in Procs : RequireSession(p)
  \/ \E p \in Procs : CaeEvaluate(p)
  \/ \E p \in Procs : CaeAssessRevoke(p)
  \/ \E p \in Procs : CaeAssessAudit(p)
  \/ \E p \in Procs : CaeUpdateRisk(p)
  \/ \E p \in Procs : UpdateRiskSet(p)
  \/ \E p \in Procs : CaeAttach(p)
  \/ \E p \in Procs : CaeRevoke(p)
  \/ \E p \in Procs : CaeReply(p)
  \/ \E p \in Procs : RevokeDel(p)
  \/ \E p \in Procs : RevokeSrem(p)
  \/ \E p \in Procs : RevokeAudit(p)
  \/ \E p \in Procs : Handler(p)
  \/ \E p \in Procs : ReplySent(p)

SpecCae == Init /\ [][NextCae]_vars

\* ----------------------------- requests on the routes the plugin protects
MaxRequests == 3

\* counter values of the session's current window when the run begins
PipeStartCounts == {0, LIMIT_MEDIUM - 1, LIMIT_LOW - 1}

\* a session s1 of u1 on device d1 exists; its rate window holds c requests
InitPipe ==
  /\ now = 0
  /\ \E mfa \in BOOLEAN :
       sessionKV = SetEx(<< >>, SessionId(1),
                         [id |-> SessionId(1), subjectId |-> "u1", deviceId |-> "d1",
                          createdAt |-> 0, expiresAt |-> SESSION_TTL_SECONDS * 1000,
                          revokedAt |-> 0, riskLevel |-> "LOW", mfaVerified |-> mfa,
                          lastEvaluatedAt |-> 0],
                         SESSION_TTL_SECONDS)
  /\ indexKV = Expire(Sadd(<< >>, "u1", SessionId(1)), "u1",
                      SESSION_TTL_SECONDS + INDEX_TTL_MARGIN)
  /\ nextId = 1
  /\ auditLog = {}
  /\ pc = [p \in Procs |-> "idle"]
  /\ stack = [p \in Procs |-> << >>]
  /\ loc = [p \in Procs |-> NoLocals]
  /\ issued = {SessionId(1)}
  /\ revokedOne = {}
  /\ revokedAll = {}
  /\ raced = {}
  /\ criticalDone = {}
  /\ \E c \in PipeStartCounts :
       /\ rateKV = (IF c = 0 THEN << >>
                    ELSE [k \in {SessionId(1)} |-> [val |-> c, exp |-> RATE_WINDOW_SECONDS]])
       /\ winAdmits = (IF c = 0 THEN << >>
                       ELSE [k \in {SessionId(1)} |-> [v \in {"LOW"} |-> c]])
  /\ entKV = << >>
  /\ opaKV = << >>
  /\ policyOn = TRUE
  /\ reqs = 0
  /\ admitLog = << >>
  /\ lastHit = NoHit
  /\ AuxInit

\* a request arrives on a protected route
PipeRequest(p, token, hdrDev, auto) ==
  /\ reqs < MaxRequests
  /\ BeginRequest(p, "plugin", token, hdrDev, auto)
  /\ reqs' = reqs + 1
  /\ UNCHANGED <<rateKV, entKV, opaKV, policyOn, admitLog, winAdmits, lastHit, aux>>

NextPipe ==
  \/ \E p \in Procs, token \in issued \cup {0}, hdrDev \in HeaderDevices, auto \in BOOLEAN :
       PipeRequest(p, token, hdrDev, auto)
  \/ \E p \in Procs : RequireSession(p)
  \/ \E p \in Procs : EnforceDeviceBinding(p)
  \/ \E p \in Procs : DeviceBindingThrows(p)
  \/ \E p \in Procs : CaeEvaluate(p)
  \/ \E p \in Procs : CaeUpdateRisk(p)
  \/ \E p \in Procs : UpdateRiskSet(p)
  \/ \E p \in Procs : CaeAttach(p)
  \/ \E p \in Procs : RiskThrottle(p)
  \/ \E p \in Procs : RateIncr(p)
  \/ \E p \in Procs : RateExpire(p)
  \/ \E p \in Procs : BuildOpaInput(p)
  \/ \E p \in Procs : OpaAuthorize(p)
  \/ \E p \in Procs : Handler(p)
  \/ \E p \in Procs : ReplySent(p)
  \/ \E p \in Procs, sid \in issued : CallRevoke(p, sid)
  \/ \E p \in Procs : RevokeDel(p)
  \/ \E p \in Procs : RevokeSrem(p)
  \/ \E p \in Procs : RevokeAudit(p)

SpecPipe == InitPipe /\ [][NextPipe]_vars

\* ------------------------------------------------ the limiter over time
RateHorizon == 60
MaxOver == 1
RateTick == RATE_WINDOW_SECONDS \div 2
RateLevels == {"HIGH", "CRITICAL"}

\* a request of session sid, whose stored risk level is `level`, reaches riskThrottle
ThrottleRequest(p, sid, level) ==
  /\ CanStart(p)
  /\ RateCount(sid) < Limit(level) + MaxOver
  /\ loc' = [loc EXCEPT ![p] =
               [NoLocals EXCEPT !.route = "throttle", !.token = sid,
                                !.session = [NullSession EXCEPT !.id = sid, !.riskLevel = level]]]
  /\ pc' = [pc EXCEPT ![p] = Chain("throttle")[1]]
  /\ UNCHANGED <<now, sessionKV, indexKV, nextId, auditLog, stack,
                 issued, revokedOne, revokedAll, raced, criticalDone, other>>

NextRate ==
  \/ \E p \in Procs, level \in RateLevels : ThrottleRequest(p, SessionId(1), level)
  \/ \E p \in Procs : RiskThrottle(p)
  \/ \E p \in Procs : RateIncr(p)
  \/ \E p \in Procs : RateExpire(p)
  \/ \E p \in Procs : Handler(p)
  \/ \E p \in Procs : ReplySent(p)
  \/ (now + RateTick <= RateHorizon /\ Tick(RateTick))

SpecRate == Init /\ [][NextRate]_vars

\* ------------------------------------------------------ authorizeWithCache
CACHE_TTL == 5
CacheHorizon == 8
CacheInputs == {[riskLevel |-> "LOW", mfa_verified |-> TRUE]}

\* the fingerprint of the input in the key opa:{hash(input)}
hash(input) == <<input.riskLevel, input.mfa_verified>>

\* const cached = await redis.get(key); if (cached) return JSON.parse(cached)
AwcGet(p, input) ==
  /\ CanStart(p)
  /\ IF hash(input) \in DOMAIN opaKV
       THEN /\ lastHit' = [at |-> now, evalAt |-> opaKV[hash(input)].val.evalAt,
                           allow |-> opaKV[hash(input)].val.allow]
            /\ UNCHANGED <<pc, loc>>
       ELSE /\ loc' = [loc EXCEPT ![p] = [NoLocals EXCEPT !.opaInput = input]]
            /\ pc' = [pc EXCEPT ![p] = "awc_evaluate"]
            /\ UNCHANGED lastHit
  /\ UNCHANGED <<now, sessionKV, indexKV, nextId, auditLog, stack,
                 issued, revokedOne, revokedAll, raced, criticalDone,
                 rateKV, entKV, opaKV, policyOn, reqs, admitLog, winAdmits, aux>>

\* const decision = await opa.evaluate(input)
AwcEvaluate(p) ==
  /\ pc[p] = "awc_evaluate"
  /\ loc' = [loc EXCEPT ![p].decision = [allow |-> Decide(loc[p].opaInput), evalAt |-> now]]
  /\ Goto(p, "awc_set")
  /\ UNCHANGED <<now, sessionKV, indexKV, nextId, auditLog,
                 issued, revokedOne, revokedAll, raced, criticalDone, other>>

\* await redis.set(key, JSON.stringify(decision), "EX", CACHE_TTL); return decision
AwcSet(p) ==
  /\ pc[p] = "awc_set"
  /\ opaKV' = SetEx(opaKV, hash(loc[p].opaInput), loc[p].decision, CACHE_TTL)
  /\ Finish(p)
  /\ UNCHANGED <<now, sessionKV, indexKV, nextId, auditLog,
                 issued, revokedOne, revokedAll, raced, criticalDone,
                 rateKV, entKV, policyOn, reqs, admitLog, winAdmits, lastHit, aux>>

\* the engine's authoritative answer flips to deny
PolicyFlip ==
  /\ policyOn
  /\ policyOn' = FALSE
  /\ UNCHANGED <<now, sessionKV, indexKV, nextId, auditLog, pc, stack, loc,
                 issued, revokedOne, revokedAll, raced, criticalDone,
                 rateKV, entKV, opaKV, reqs, admitLog, winAdmits, lastHit, aux>>

NextCache ==
  \/ \E p \in Procs, input \in CacheInputs : AwcGet(p, input)
  \/ \E p \in Procs : AwcEvaluate(p)
  \/ \E p \in Procs : AwcSet(p)
  \/ PolicyFlip
  \/ (now < CacheHorizon /\ Tick(1))

SpecCache == Init /\ [][NextCache]_vars

\* ------------------------------------------------------ ImmutableAuditLog
MaxLog == 3
Actors == {"svc", "ops"}
KeyActions == {"KEY_CREATED", "KEY_USED"}

\* position of a value in the enumeration of its field
ActorCode(a) == IF a = "svc" THEN 0 ELSE 1
ActionCode(a) == IF a = "KEY_CREATED" THEN 0 ELSE 1

\* JSON.stringify({ ...event, eventId: undefined, previousHash }): the fields
\* other than eventId, then previousHash
Serialize(event, previousHash) ==
  <<ActorCode(event.actor), ActionCode(event.action), previousHash>>

\* createHash('sha256').update(serialized).digest('hex'), taken as injective:
\* distinct serializations have distinct digests, none of them 'GENESIS'
Sha256(serialized) ==
  (serialized[3] * Cardinality(KeyActions) + serialized[2]) * Cardinality(Actors)
    + serialized[1] + 1

\* append(event): events.push({ ...event, eventId: hash }); lastHash = hash
ChainAppend(actor, action) ==
  /\ forgedBy = "none"
  /\ Len(chainEvents) < MaxLog
  /\ LET event == [actor |-> actor, action |-> action]
         digest == Sha256(Serialize(event, chainLast))
     IN /\ chainEvents' = Append(chainEvents, [actor |-> actor, action |-> action, eventId |-> digest])
        /\ chainLast' = digest
  /\ UNCHANGED <<now, sessionKV, indexKV, nextId, auditLog, pc, stack, loc,
                 issued, revokedOne, revokedAll, raced, criticalDone,
                 rateKV, entKV, opaKV, policyOn, reqs, admitLog, winAdmits, lastHit,
                 forged, forgedBy, audits, extra>>

RECURSIVE VerifyFrom(_, _)
\* the loop of verify(): prev is the eventId of the record before
VerifyFrom(events, prev) ==
  IF events = << >> THEN TRUE
  ELSE IF Sha256(Serialize(Head(events), prev)) # Head(events).eventId THEN FALSE
  ELSE VerifyFrom(Tail(events), Head(events).eventId)

\* verify() over a list of events
Verify(events) == VerifyFrom(events, GENESIS)

\* the events without the one at position i
DeleteAt(events, i) == SubSeq(events, 1, i - 1) \o SubSeq(events, i + 1, Len(events))

\* an insider produces a copy of the log with one change
Tamper(kind, copy) ==
  /\ forgedBy = "none"
  /\ copy # chainEvents
  /\ forged' = copy
  /\ forgedBy' = kind
  /\ UNCHANGED <<now, sessionKV, indexKV, nextId, auditLog, pc, stack, loc,
                 issued, revokedOne, revokedAll, raced, criticalDone,
                 rateKV, entKV, opaKV, policyOn, reqs, admitLog, winAdmits, lastHit,
                 chainEvents, chainLast, audits, extra>>

TamperDelete(i) == Tamper("delete", DeleteAt(chainEvents, i))

TamperSwap(i, j) ==
  Tamper("swap", [chainEvents EXCEPT ![i] = chainEvents[j], ![j] = chainEvents[i]])

TamperMutate(i, actor, action, id) ==
  Tamper("mutate", [chainEvents EXCEPT ![i] = [actor |-> actor, action |-> action, eventId |-> id]])

\* the ids a forger can write: those in the log, and GENESIS
KnownIds == {chainEvents[k].eventId : k \in DOMAIN chainEvents} \cup {GENESIS}

NextChain ==
  \/ \E actor \in Actors, action \in KeyActions : ChainAppend(actor, action)
  \/ \E i \in DOMAIN chainEvents : TamperDelete(i)
  \/ \E i, j \in DOMAIN chainEvents : i < j /\ TamperSwap(i, j)
  \/ \E i \in DOMAIN chainEvents, actor \in Actors, action \in KeyActions, id \in KnownIds :
       /\ \/ actor = chainEvents[i].actor /\ action = chainEvents[i].action
          \/ actor = chainEvents[i].actor /\ id = chainEvents[i].eventId
          \/ action = chainEvents[i].action /\ id = chainEvents[i].eventId
       /\ TamperMutate(i, actor, action, id)

SpecChain == Init /\ [][NextChain]_vars

\* the levels callers of updateRisk pass
UpdateLevels == {"LOW", "HIGH"}

\* ------------------------------------------------------ EntitlementService
MaxEntitlements == 1
Admin == "admin"

LiveOf(S) == {id \in DOMAIN sessionKV : sessionKV[id].val.subjectId = S}

\* grant: createEntitlement(params) and prisma.entitlement.create;
\* validUntil = 0 stands for a grant without validUntil
EntGrantWith(p, subj, validUntil) ==
  /\ CanStart(p)
  /\ Cardinality(DOMAIN entKV) < MaxEntitlements
  /\ LET e == Cardinality(DOMAIN entKV) + 1
     IN /\ entKV' = [x \in (DOMAIN entKV) \cup {e} |->
                       IF x = e
                         THEN [subjectId |-> subj, status |-> "ACTIVE", validFrom |-> DateNow,
                               validUntil |-> validUntil, createdAt |-> DateNow,
                               updatedAt |-> DateNow,
                               revokedAt |-> 0]
                         ELSE entKV[x]]
        /\ loc' = [loc EXCEPT ![p] = [NoLocals EXCEPT !.ent = e, !.subj = subj]]
  /\ Goto(p, "eg_audit")
  /\ UNCHANGED <<now, sessionKV, indexKV, nextId, auditLog,
                 issued, revokedOne, revokedAll, raced, criticalDone,
                 rateKV, opaKV, policyOn, reqs, admitLog, winAdmits, lastHit, aux>>

\* grant with no validUntil among its parameters
EntGrantCreate(p, subj) == EntGrantWith(p, subj, 0)

\* grant: audit.log ENTITLEMENT_GRANTED; return entitlement
EntGrantAudit(p) ==
  /\ pc[p] = "eg_audit"
  /\ AuditStep([action |-> "ENTITLEMENT_GRANTED", actorId |-> Admin, target |-> loc[p].ent,
                count |-> 0], "EntitlementService.grant")
  /\ IF AuditRejects THEN Finish(p) ELSE Return(p)
  /\ UNCHANGED <<now, sessionKV, indexKV, nextId,
                 issued, revokedOne, revokedAll, raced, criticalDone, otherButErrors>>

\* a revoke that gives a revoked entitlement its ACTIVE status back
EntRevokeToggle(p, e) ==
  /\ CanStart(p)
  /\ e \in DOMAIN entKV
  /\ entKV' = [entKV EXCEPT ![e].status = IF @ = "REVOKED" THEN "ACTIVE" ELSE "REVOKED",
                            ![e].revokedAt = DateNow, ![e].updatedAt = DateNow]
  /\ loc' = [loc EXCEPT ![p] = [NoLocals EXCEPT !.ent = e, !.subj = entKV[e].subjectId,
                                               !.before = LiveOf(entKV[e].subjectId)]]
  /\ Goto(p, "er_sessions")
  /\ UNCHANGED <<now, sessionKV, indexKV, nextId, auditLog,
                 issued, revokedOne, revokedAll, raced, criticalDone,
                 rateKV, opaKV, policyOn, reqs, admitLog, winAdmits, lastHit, aux>>

\* revoke: prisma.entitlement.update({ status: "REVOKED", revokedAt, updatedAt })
EntRevokeUpdate(p, e) ==
  /\ CanStart(p)
  /\ e \in DOMAIN entKV
  /\ entKV' = [entKV EXCEPT ![e].status = "REVOKED", ![e].revokedAt = DateNow,
                            ![e].updatedAt = DateNow]
  /\ loc' = [loc EXCEPT ![p] = [NoLocals EXCEPT !.ent = e, !.subj = entKV[e].subjectId,
                                               !.before = LiveOf(entKV[e].subjectId)]]
  /\ Goto(p, "er_sessions")
  /\ UNCHANGED <<now, sessionKV, indexKV, nextId, auditLog,
                 issued, revokedOne, revokedAll, raced, criticalDone,
                 rateKV, opaKV, policyOn, reqs, admitLog, winAdmits, lastHit, aux>>

\* revokeSessionsForSubject: await SessionService.revokeAllForSubject(subjectId)
EntRevokeSessions(p) ==
  /\ pc[p] = "er_sessions"
  /\ RevokeAllSmembers(p, loc[p].subj, <<"er_audit_sessions">> \o stack[p])

\* revokeSessionsForSubject: audit.log SESSIONS_REVOKED_SUBJECT { subjectId }
EntRevokeAuditSessions(p) ==
  /\ pc[p] = "er_audit_sessions"
  /\ AuditStep([action |-> "SESSIONS_REVOKED_SUBJECT", actorId |-> loc[p].subj, target |-> 0,
                count |-> 0], "EntitlementService.revoke")
  /\ IF AuditRejects THEN Finish(p) ELSE Goto(p, "er_audit") /\ UNCHANGED loc
  /\ UNCHANGED <<now, sessionKV, indexKV, nextId,
                 issued, revokedOne, revokedAll, raced, criticalDone, otherButErrors>>

\* revoke: audit.log ENTITLEMENT_REVOKED; return entitlement
EntRevokeAudit(p) ==
  /\ pc[p] = "er_audit"
  /\ AuditStep([action |-> "ENTITLEMENT_REVOKED", actorId |-> Admin, target |-> loc[p].ent,
                count |-> 0], "EntitlementService.revoke")
  /\ IF AuditRejects THEN Finish(p) ELSE Return(p)
  /\ UNCHANGED <<now, sessionKV, indexKV, nextId,
                 issued, revokedOne, revokedAll, raced, criticalDone, otherButErrors>>

\* the labels at which the next step is a Redis command
RedisLabels ==
  {"cr_sadd", "cr_expire", "ur_set", "rv_del", "rv_srem", "ra_delkeys", "ra_delindex",
   "er_sessions", "cae_assess_revoke", "cae_update", "cae_revoke"}

\* the store is unreachable or times out: the command rejects and, nothing
\* catching it, the exception ends the whole call
RedisFails(p) ==
  /\ pc[p] \in RedisLabels
  /\ Finish(p)
  /\ UNCHANGED <<now, sessionKV, indexKV, nextId, auditLog,
                 issued, revokedOne, revokedAll, raced, criticalDone, other>>

\* --------------- entitlement administration next to session traffic
NextEnt ==
  \/ \E p \in Procs, dev \in DeviceIds : CreateSet(p, "u1", dev, TRUE)
  \/ \E p \in Procs : CreateSadd(p)
  \/ \E p \in Procs : CreateExpire(p)
  \/ \E p \in Procs : EntGrantCreate(p, "u1")
  \/ \E p \in Procs : EntGrantAudit(p)
  \/ \E p \in Procs, e \in DOMAIN entKV : EntRevokeUpdate(p, e)
  \/ \E p \in Procs : EntRevokeSessions(p)
  \/ \E p \in Procs : RevokeAllDelKeys(p)
  \/ \E p \in Procs : RevokeAllDelIndex(p)
  \/ \E p \in Procs : RevokeAllAudit(p)
  \/ \E p \in Procs : EntRevokeAuditSessions(p)
  \/ \E p \in Procs : EntRevokeAudit(p)
  \/ \E p \in Procs, sid \in issued, level \in UpdateLevels : CallUpdateRisk(p, sid, level)
  \/ \E p \in Procs : UpdateRiskSet(p)
  \/ \E p \in Procs : RedisFails(p)

SpecEnt == Init /\ [][NextEnt]_vars

\* ------------------------------------------------------ the audit sink
Decisions == {"ALLOW", "DENY"}
MaxRecords == 1

\* AuthzAuditService.record without its catch block
RecordRethrows == FALSE

\* AuthzAuditService.record: the catch block around prisma.authzAudit.create
\* takes every error (console.error only)
RecordCatches == TRUE

\* AuthzAuditService.record(record)
AuthzRecord(p, sid, decision) ==
  /\ CanStart(p)
  /\ Cardinality(authzAudit \cup authzAlerts) < MaxRecords
  /\ LET record == [sessionId |-> sid, decision |-> decision]
     IN IF sinkUp
          THEN /\ authzAudit' = authzAudit \cup {record}
               /\ UNCHANGED <<authzAlerts, callerErrors>>
          ELSE IF RecordCatches
                 THEN /\ authzAlerts' = authzAlerts \cup {record}
                      /\ UNCHANGED <<authzAudit, callerErrors>>
                 ELSE /\ callerErrors' = callerErrors \cup {"AuthzAuditService.record"}
                      /\ UNCHANGED <<authzAudit, authzAlerts>>
  /\ UNCHANGED <<now, sessionKV, indexKV, nextId, auditLog, pc, stack, loc,
                 issued, revokedOne, revokedAll, raced, criticalDone,
                 rateKV, entKV, opaKV, policyOn, reqs, admitLog, winAdmits, lastHit,
                 chainEvents, chainLast, forged, forgedBy, sinkUp, extra>>

\* the audit store stops taking writes
SinkFails ==
  /\ sinkUp
  /\ sinkUp' = FALSE
  /\ UNCHANGED <<now, sessionKV, indexKV, nextId, auditLog, pc, stack, loc,
                 issued, revokedOne, revokedAll, raced, criticalDone,
                 rateKV, entKV, opaKV, policyOn, reqs, admitLog, winAdmits, lastHit,
                 chainEvents, chainLast, forged, forgedBy,
                 authzAudit, authzAlerts, callerErrors, extra>>

\* one caller at a time; every request is automated from an unknown device,
\* so that assessSession finds CRITICAL risk
NextSink ==
  \/ \E dev \in DeviceIds : CreateSet(1, "u1", dev, TRUE)
  \/ CreateSadd(1)
  \/ CreateExpire(1)
  \/ RevokeDel(1)
  \/ RevokeSrem(1)
  \/ RevokeAudit(1)
  \/ RevokeAllDelKeys(1)
  \/ RevokeAllDelIndex(1)
  \/ RevokeAllAudit(1)
  \/ EntGrantCreate(1, "u1")
  \/ EntGrantAudit(1)
  \/ \E e \in DOMAIN entKV : EntRevokeUpdate(1, e)
  \/ EntRevokeSessions(1)
  \/ EntRevokeAuditSessions(1)
  \/ EntRevokeAudit(1)
  \/ \E token \in issued : StartRequest(1, "cae", token, "d2", TRUE)
  \/ RequireSession(1)
  \/ CaeEvaluate(1)
  \/ CaeAssessRevoke(1)
  \/ CaeAssessAudit(1)
  \/ CaeUpdateRisk(1)
  \/ CaeAttach(1)
  \/ CaeRevoke(1)
  \/ CaeReply(1)
  \/ ReplySent(1)
  \/ \E decision \in Decisions :
       SessionId(1) \in issued /\ AuthzRecord(1, SessionId(1), decision)
  \/ SinkFails

SpecSink == Init /\ [][NextSink]_vars

\* a revoke that returned although its event never reached the log
RevokedUnlogged ==
  \E sid \in revokedOne :
    \A e \in auditLog : ~(e.action = "SESSION_REVOKED" /\ e.target = sid)

MaxSignals == 3

\* RiskSignal.severity: number, 1-10
MAX_SEVERITY == 10

SignalTypes == {"IP_ANOMALY", "DEVICE_MISMATCH"}

RiskSignals == [type : SignalTypes, severity : 1..MAX_SEVERITY]

\* the engine is about to be called with some list of signals
InitRisk ==
  /\ StoreInit
  /\ chainEvents = << >> /\ chainLast = GENESIS /\ forged = << >> /\ forgedBy = "none"
  /\ authzAudit = {} /\ authzAlerts = {} /\ sinkUp = TRUE /\ callerErrors = {}
  /\ jobs = << >> /\ auditDb = {} /\ faults = {}
  /\ \E n \in 0..MaxSignals : riskSignals \in [1..n -> RiskSignals]
  /\ riskProfile = NoProfile
  /\ MoreInit

\* RiskEngine.evaluate({ sessionId, subjectId, signals })
Evaluate ==
  /\ riskProfile = NoProfile
  /\ LET normalized == Min(SumScore(riskSignals), 100)
     IN riskProfile' = [score |-> normalized, level |-> classify(normalized)]
  /\ UNCHANGED <<now, sessionKV, indexKV, nextId, auditLog, pc, stack, loc,
                 issued, revokedOne, revokedAll, raced, criticalDone,
                 rateKV, entKV, opaKV, policyOn, reqs, admitLog, winAdmits, lastHit,
                 chainEvents, chainLast, forged, forgedBy, audits,
                 jobs, auditDb, faults, riskSignals, more>>

NextRisk == Evaluate

SpecRisk == InitRisk /\ [][NextRisk]_vars

RECURSIVE SeveritySum(_, _)
\* the sum of the severities of the first n signals
SeveritySum(sigs, n) == IF n = 0 THEN 0 ELSE sigs[n].severity + SeveritySum(sigs, n - 1)

\* C17: for every list of signals with severities in 1..10, riskScore is
\* min(100, 5 x the sum of the severities) and riskLevel is LOW below 30,
\* MEDIUM in [30,60), HIGH in [60,80), CRITICAL from 80 on; nothing but the
\* severities enters the result
C17_ScoreAndLevel ==
  riskProfile # NoProfile =>
    LET total == 5 * SeveritySum(riskSignals, Len(riskSignals))
        expected == IF total > 100 THEN 100 ELSE total
    IN /\ riskProfile.score = expected
       /\ riskProfile.level = "LOW" <=> expected < 30
       /\ riskProfile.level = "MEDIUM" <=> expected >= 30 /\ expected < 60
       /\ riskProfile.level = "HIGH" <=> expected >= 60 /\ expected < 80
       /\ riskProfile.level = "CRITICAL" <=> expected >= 80

\* the engine has capped a sum above 100
C17_Witness ==
  /\ riskProfile.level = "CRITICAL"
  /\ riskProfile.score = 100
  /\ SeveritySum(riskSignals, Len(riskSignals)) > 20

\* ------------------------------------------------ backends that fail
Backends == {"session", "rate", "opa"}

\* the labels at which the next step of a request awaits the backend:
\* SessionService.get / updateRisk / revoke (Redis), redis.incr / redis.expire
\* of enforceRateLimit, axios.post of opaClient.decide
AwaitLabels(kind) ==
  IF kind = "session"
    THEN {"requireSession", "cae_assess_revoke", "cae_update", "ur_set", "rv_del", "rv_srem",
          "cae_revoke"}
    ELSE IF kind = "rate" THEN {"rt_incr", "rt_expire"} ELSE {"opaAuthorize"}

\* a backend becomes unreachable (timeouts, connection errors, non-2xx
\* answers), or comes back
FaultStarts(kind) ==
  /\ kind \notin faults
  /\ faults' = faults \cup {kind}
  /\ UNCHANGED <<now, sessionKV, indexKV, nextId, auditLog, pc, stack, loc,
                 issued, revokedOne, revokedAll, raced, criticalDone,
                 rateKV, entKV, opaKV, policyOn, reqs, admitLog, winAdmits, lastHit,
                 chainEvents, chainLast, forged, forgedBy, audits,
                 jobs, auditDb, riskSignals, riskProfile, more>>

FaultEnds(kind) ==
  /\ kind \in faults
  /\ faults' = faults \ {kind}
  /\ UNCHANGED <<now, sessionKV, indexKV, nextId, auditLog, pc, stack, loc,
                 issued, revokedOne, revokedAll, raced, criticalDone,
                 rateKV, entKV, opaKV, policyOn, reqs, admitLog, winAdmits, lastHit,
                 chainEvents, chainLast, forged, forgedBy, audits,
                 jobs, auditDb, riskSignals, riskProfile, more>>

\* the awaited command rejects (ioredis and axios reject the promise): no
\* hook and no client catches it, the hook's promise rejects and the
\* framework's error handler answers 500
BackendFails(p, kind) ==
  /\ kind \in faults
  /\ pc[p] \in AwaitLabels(kind)
  /\ loc[p].route = "plugin"
  /\ LET l == IF pc[p] \in {"requireSession", "opaAuthorize"}
                THEN Enter(loc[p], pc[p]) ELSE loc[p]
     IN /\ loc' = [loc EXCEPT ![p] = [l EXCEPT !.status = 500, !.failed = kind]]
        /\ pc' = [pc EXCEPT ![p] = "replied"]
        /\ stack' = [stack EXCEPT ![p] = << >>]
  /\ UNCHANGED <<now, sessionKV, indexKV, nextId, auditLog,
                 issued, revokedOne, revokedAll, raced, criticalDone, other>>

\* one client on the protected routes while backends come and go
NextFault ==
  \/ \E hdrDev \in DeviceIds, auto \in BOOLEAN : PipeRequest(1, SessionId(1), hdrDev, auto)
  \/ RequireSession(1)
  \/ EnforceDeviceBinding(1)
  \/ DeviceBindingThrows(1)
  \/ CaeEvaluate(1)
  \/ CaeUpdateRisk(1)
  \/ UpdateRiskSet(1)
  \/ CaeAttach(1)
  \/ RiskThrottle(1)
  \/ RateIncr(1)
  \/ RateExpire(1)
  \/ BuildOpaInput(1)
  \/ OpaAuthorize(1)
  \/ Handler(1)
  \/ ReplySent(1)
  \/ \E kind \in Backends : FaultStarts(kind)
  \/ \E kind \in Backends : FaultEnds(kind)
  \/ \E kind \in Backends : BackendFails(1, kind)

SpecFault == InitPipe /\ [][NextFault]_vars

\* C15: when the policy engine times out or answers non-2xx, decide returns
\* allow = false instead of raising: opaAuthorize answers 403 and the handler
\* does not run
C15_PolicyOutageDenies ==
  \A p \in Procs :
    loc[p].failed = "opa" => pc[p] = "replied" /\ loc[p].status = 403

\* C16: a session store failure during a hook ends the request with 503, a
\* rate counter failure with 429, and the handler does not run
C16_StoreOutageFailsClosed ==
  \A p \in Procs :
    /\ loc[p].failed = "session" => pc[p] = "replied" /\ loc[p].status = 503
    /\ loc[p].failed = "rate" => pc[p] = "replied" /\ loc[p].status = 429

\* -------------------------------------------------------- the audit queue
MaxJobs == 3

\* JobsOptions of enqueueAudit: { attempts: 5, backoff: exponential }
ATTEMPTS == 5

\* audit entries by their decision
Payloads == {"ALLOW", "DENY"}

\* everything but the queue and the table it feeds
notQueue ==
  <<now, sessionKV, indexKV, nextId, auditLog, pc, stack, loc,
    issued, revokedOne, revokedAll, raced, criticalDone,
    rateKV, entKV, opaKV, policyOn, reqs, admitLog, winAdmits, lastHit,
    chainEvents, chainLast, forged, forgedBy, audits, faults, riskSignals, riskProfile, more>>

\* persistAudit(entry): try { auditLogger.info; await prisma.auditLog.create }
\* catch (err) { auditLogger.error }  -- the error stops here
persistAudit(j, payload, dbOk) ==
  [rows |-> IF dbOk THEN auditDb \cup {[job |-> j, payload |-> payload]} ELSE auditDb,
   threw |-> FALSE]

\* enqueueAudit(payload): auditQueue.add("persist", payload, opts)
EnqueueAudit(payload) ==
  /\ Len(jobs) < MaxJobs
  /\ jobs' = Append(jobs, [payload |-> payload, attemptsMade |-> 0, state |-> "waiting"])
  /\ UNCHANGED <<auditDb, notQueue>>

\* the worker takes a waiting job
WorkerTake(j) ==
  /\ jobs[j].state = "waiting"
  /\ jobs' = [jobs EXCEPT ![j].state = "active"]
  /\ UNCHANGED <<auditDb, notQueue>>

\* the processor runs: await persistAudit(job.data). The queue retries a job
\* whose processor threw while attempts remain, fails it when they are used
\* up, and completes a job whose processor returned
WorkerRun(j, dbOk) ==
  /\ jobs[j].state = "active"
  /\ LET result == persistAudit(j, jobs[j].payload, dbOk)
         made == jobs[j].attemptsMade + 1
     IN /\ auditDb' = result.rows
        /\ jobs' = [jobs EXCEPT ![j] =
             [@ EXCEPT !.attemptsMade = made,
                       !.state = IF ~result.threw THEN "completed"
                                 ELSE IF made < ATTEMPTS THEN "waiting" ELSE "failed"]]
  /\ UNCHANGED notQueue

NextQueue ==
  \/ \E payload \in Payloads : EnqueueAudit(payload)
  \/ \E j \in DOMAIN jobs : WorkerTake(j)
  \/ \E j \in DOMAIN jobs, dbOk \in BOOLEAN : WorkerRun(j, dbOk)

SpecQueue == Init /\ [][NextQueue]_vars

Stored(j) == \E row \in auditDb : row.job = j

\* C14: an event whose persistence fails is retried, up to 5 attempts; it is
\* reported completed only when some attempt stored it, and when all 5
\* attempts failed the job is in the failed state
C14_CompletedMeansStored ==
  \A j \in DOMAIN jobs :
    /\ jobs[j].state = "completed" => Stored(j)
    /\ jobs[j].state = "failed" => jobs[j].attemptsMade = ATTEMPTS /\ ~Stored(j)

\* ------------------------------------------------------------ store spec
Next ==
  \/ \E p \in Procs, subj \in Subjects, dev \in DeviceIds : CreateSet(p, subj, dev, TRUE)
  \/ \E p \in Procs : CreateSadd(p)
  \/ \E p \in Procs : CreateExpire(p)
  \/ \E p \in Procs, sid \in issued, level \in UpdateLevels : CallUpdateRisk(p, sid, level)
  \/ \E p \in Procs : UpdateRiskSet(p)
  \/ \E p \in Procs, sid \in issued : CallRevoke(p, sid)
  \/ \E p \in Procs : RevokeDel(p)
  \/ \E p \in Procs : RevokeSrem(p)
  \/ \E p \in Procs : RevokeAudit(p)
  \/ \E p \in Procs, subj \in Subjects : CallRevokeAll(p, subj)
  \/ \E p \in Procs : RevokeAllDelKeys(p)
  \/ \E p \in Procs : RevokeAllDelIndex(p)
  \/ \E p \in Procs : RevokeAllAudit(p)

Spec == Init /\ [][Next]_vars

\* ------------------------------------- one caller, with the clock running
NextTtl ==
  \/ \E subj \in Subjects, dev \in DeviceIds : CreateSet(1, subj, dev, TRUE)
  \/ CreateSadd(1)
  \/ CreateExpire(1)
  \/ \E sid \in issued, level \in UpdateLevels : CallUpdateRisk(1, sid, level)
  \/ UpdateRiskSet(1)
  \/ \E sid \in issued : CallRevoke(1, sid)
  \/ RevokeDel(1)
  \/ RevokeSrem(1)
  \/ RevokeAudit(1)
  \/ \E subj \in Subjects : CallRevokeAll(1, subj)
  \/ RevokeAllDelKeys(1)
  \/ RevokeAllDelIndex(1)
  \/ RevokeAllAudit(1)
  \/ Tick(SESSION_TTL_SECONDS)

SpecTtl == Init /\ [][NextTtl]_vars

\* ------------------------------------------------------------------ claims
\* the subject of a session id, as recorded when the session was created
IndexMembers(S) == Smembers(indexKV, S)

\* C1: once every call has completed, a session that revoke(id) has revoked is
\* absent: a concurrent updateRisk never re-creates the deleted key.
C1_RevokeTerminal == AllIdle => \A id \in revokedOne : Absent(id)

\* C2: after revokeAllForSubject has returned, every id of the snapshot it read
\* is absent, whatever get and updateRisk calls run concurrently.
C2_RevokeAllTerminal == \A id \in revokedAll : Absent(id)

\* C3: with no store operation in flight, the set at subject:sessions:{S} equals
\* the ids whose session key exists with subjectId S.
C3_IndexExact == AllIdle => \A S \in Subjects : IndexMembers(S) = LiveOf(S)

\* C7: once an evaluation has computed CRITICAL for a session and that request
\* has completed, get of that id is absent in every later state.
C7_CriticalTerminal == \A id \in criticalDone : Absent(id)

\* updateRisk issues its SET in this step
UpdateRiskWrites(p) == pc[p] = "ur_set" /\ pc'[p] # "ur_set"

\* C19: updateRisk on an existing session changes the record's riskLevel and
\* lastEvaluatedAt and nothing else: the key's expiry, the other fields, the
\* other keys and the subject index stay; on a session that does not exist
\* the store stays as it is
C19_UpdateRiskFrame ==
  [][\A p \in Procs :
       UpdateRiskWrites(p) =>
         LET id == loc[p].raw.id
         IN /\ indexKV' = indexKV
            /\ IF id \in DOMAIN sessionKV
                 THEN /\ DOMAIN sessionKV' = DOMAIN sessionKV
                      /\ \A k \in DOMAIN sessionKV \ {id} : sessionKV'[k] = sessionKV[k]
                      /\ sessionKV'[id].exp = sessionKV[id].exp
                      /\ sessionKV'[id].val =
                           [sessionKV[id].val EXCEPT !.riskLevel = loc[p].level,
                                                     !.lastEvaluatedAt = loc[p].t]
                 ELSE sessionKV' = sessionKV]_vars

\* C20: a session key always carries an expiry, the expiry is never later
\* than the record's expiresAt, and from expiresAt on get(id) is absent
C20_ExpiryHonoured ==
  \A id \in DOMAIN sessionKV :
    /\ sessionKV[id].exp # NoExpiry
    /\ sessionKV[id].exp * 1000 <= sessionKV[id].val.expiresAt
    /\ now * 1000 >= sessionKV[id].val.expiresAt => Absent(id)

HighRiskEvent(subj) ==
  [action |-> "SESSION_TERMINATED_HIGH_RISK", actorId |-> subj, target |-> 0, count |-> 0]

\* the CRITICAL branch of assessSession returns in this step
AssessCriticalReturns(p) == pc[p] = "cae_assess_audit" /\ pc'[p] = "cae_update"

\* the evaluation of this request writes its risk level to the store in this step
RiskUpdateWritten(p) == pc[p] = "ur_set" /\ pc'[p] # "ur_set" /\ loc[p].route = "cae"

\* C18: an assessment that evaluates CRITICAL revokes the session, emits one
\* SESSION_TERMINATED_HIGH_RISK event and writes no risk update for the
\* session; any other assessment leaves the session in place and stores the
\* evaluated level
C18_AssessOutcome ==
  [][\A p \in Procs :
       /\ AssessCriticalReturns(p) =>
            /\ loc[p].session.id \notin DOMAIN sessionKV'
            /\ auditLog' = auditLog \cup {HighRiskEvent(loc[p].session.subjectId)}
       /\ RiskUpdateWritten(p) =>
            /\ loc[p].risk # "CRITICAL"
            /\ sessionKV'[loc[p].session.id].val.riskLevel = loc[p].risk
       /\ (pc[p] = "continuousAccessEvaluation" /\ pc'[p] = "cae_update") =>
            UNCHANGED <<sessionKV, auditLog>>]_vars

\* an EntitlementService.revoke call, having set the status, completes in this step
EntRevokeCompletes(p) == loc[p].ent # 0 /\ pc[p] \in {"er_sessions", "ra_delkeys", "ra_delindex", "ra_audit", "er_audit_sessions", "er_audit"} /\ pc'[p] = "idle"

EntRevokedEvent(e) ==
  [action |-> "ENTITLEMENT_REVOKED", actorId |-> Admin, target |-> e, count |-> 0]

\* C8: when a revoke that set the status to REVOKED completes, by return or by
\* exception, every session of the subject that existed before the call is
\* absent and ENTITLEMENT_REVOKED has been emitted.
C8_EntitlementRevokeForcesReauth ==
  [][\A p \in Procs :
       EntRevokeCompletes(p) =>
         /\ \A id \in loc[p].before : id \notin DOMAIN sessionKV'
         /\ EntRevokedEvent(loc[p].ent) \in auditLog']_vars

\* C4: a create whose first write follows the snapshot read of a racing
\* revokeAllForSubject ends, once both have completed, with its key present and
\* its id in the subject index.
C4_RacingCreateIndexed ==
  AllIdle =>
    \A id \in (raced \cap issued) \ (revokedOne \cup revokedAll) :
      /\ ~Absent(id)
      /\ id \in IndexMembers(SessionGet(id).subjectId)

\* the order the pipeline promises
HookOrder ==
  <<"requireSession", "enforceDeviceBinding", "continuousAccessEvaluation",
    "riskThrottle", "buildOpaInput", "opaAuthorize">>

\* C5: the handler of a protected route runs only for a request in which, in
\* that same request, SessionService.get returned a live session, the device
\* header matched, the computed risk was not CRITICAL, the counter was within
\* the cap and the engine answered allow.
C5_HandlerOnlyAfterAllChecks ==
  \A p \in Procs :
    pc[p] = "handler" /\ loc[p].route = "plugin" =>
      /\ loc[p].session # NullSession
      /\ loc[p].session.id = loc[p].token
      /\ loc[p].session.revokedAt = 0
      /\ loc[p].hdrDev # "" /\ loc[p].hdrDev = loc[p].session.deviceId
      /\ loc[p].risk \in RiskLevels \ {"CRITICAL"}
      /\ loc[p].count >= 1 /\ loc[p].count <= Limit(loc[p].risk)
      /\ loc[p].decision.allow /\ loc[p].decision.evalAt >= 0
      /\ loc[p].status = 0

C5_Witness ==
  \E p \in Procs : pc[p] = "handler" /\ loc[p].route = "plugin" /\ reqs >= 2
                   /\ loc[p].risk = "MEDIUM" /\ loc[p].count = LIMIT_MEDIUM

\* C6: on a protected route the hooks run in the promised order, and once a
\* hook has written a response no later hook and not the handler runs.
C6_HookOrderAndShortCircuit ==
  \A p \in Procs :
    loc[p].route = "plugin" =>
      /\ Len(loc[p].hooks) <= Len(HookOrder)
      /\ loc[p].hooks = SubSeq(HookOrder, 1, Len(loc[p].hooks))
      /\ loc[p].status # 0 => pc[p] = "replied"
      /\ pc[p] = "handler" => loc[p].hooks = HookOrder
      /\ pc[p] \notin {"handler", "replied"} /\ stack[p] = << >> /\ Len(loc[p].hooks) < Len(HookOrder) =>
           pc[p] \in {HookOrder[Len(loc[p].hooks) + 1], "cae_update", "cae_attach", "ur_set", "rt_incr", "rt_expire"}

C6_Witness ==
  \E p \in Procs : pc[p] = "replied" /\ loc[p].route = "plugin" /\ loc[p].status = 401
                   /\ loc[p].hooks = <<"requireSession", "enforceDeviceBinding">>

C10_HitWithinTtlOfEvaluation ==
  lastHit.at >= 0 => lastHit.at < lastHit.evalAt + CACHE_TTL

\* C11: after any appends verify() is true, and it is false for every log
\* obtained by deleting one record, swapping two records or changing a field
\* of one record.
C11_ChainTamperEvident ==
  /\ Verify(chainEvents)
  /\ forgedBy # "none" => ~Verify(forged)

\* the request of worker p has been decided by the policy step and ends in this step
DecidedRequestEnds(p) ==
  /\ loc[p].route = "plugin"
  /\ loc[p].hooks = HookOrder
  /\ pc[p] \in {"handler", "replied"}
  /\ pc'[p] = "idle"

\* C12: every request that reaches the policy decision step results in an
\* authorization audit record carrying its decision: ALLOW when the handler
\* is reached, DENY when opaAuthorize answers 403.
C12_DecisionAudited ==
  [][\A p \in Procs :
       DecidedRequestEnds(p) =>
         [sessionId |-> loc[p].session.id,
          decision |-> IF pc[p] = "handler" THEN "ALLOW" ELSE "DENY"] \in authzAudit']_vars

\* ---------------------------------------------- revokeAllForSubject's result
\* the value of a call that ends with `return;` or runs off its end
Undefined == -1

\* what revokeAllForSubject hands its caller: both exits are a bare return
RevokeAllReturns(ids) == Undefined

SubjectRevokedEvent(subj, n) ==
  [action |-> "SESSIONS_REVOKED_SUBJECT", actorId |-> subj, target |-> 0, count |-> n]

\* revokeAllForSubject returns in this step, having deleted the keys it read
RevokeAllCompletes(p) == pc[p] = "ra_audit" /\ pc'[p] # "ra_audit"

\* revokeSessionsForSubject returns in this step
WrapperCompletes(p) == pc[p] = "er_audit_sessions" /\ pc'[p] # "er_audit_sessions"

\* C21: a call of revokeAllForSubject, direct or through
\* revokeSessionsForSubject, returns the number of sessions it revoked and
\* causes one SESSIONS_REVOKED_SUBJECT event, which carries that number; a
\* call that finds no session leaves the store as it is
C21_RevokeAllCounted ==
  [][\A p \in Procs :
       /\ RevokeAllCompletes(p) =>
            /\ RevokeAllReturns(loc[p].ids) = Cardinality(loc[p].ids)
            /\ auditLog' = auditLog \cup {SubjectRevokedEvent(loc[p].subj, Cardinality(loc[p].ids))}
       /\ WrapperCompletes(p) =>
            auditLog' \subseteq
              auditLog \cup {SubjectRevokedEvent(loc[p].subj, Cardinality(loc[p].ids))}
       /\ (pc[p] = "er_sessions" /\ pc'[p] = "er_audit_sessions") =>
            UNCHANGED <<sessionKV, indexKV, auditLog>>]_vars

\* ------------------------------------------------- calls that are abandoned
\* the labels between two store writes of SessionService.create and of
\* enforceRateLimit
AbandonLabels == {"cr_sadd", "cr_expire", "rt_incr", "rt_expire"}

\* the request is cancelled or the process stops: the call never issues its
\* remaining commands
Abandon(p) ==
  /\ pc[p] \in AbandonLabels
  /\ Finish(p)
  /\ UNCHANGED <<now, sessionKV, indexKV, nextId, auditLog,
                 issued, revokedOne, revokedAll, raced, criticalDone, other>>

\* one caller, whose calls may be cut short
NextAbandon ==
  \/ \E dev \in DeviceIds : CreateSet(1, "u1", dev, TRUE)
  \/ CreateSadd(1)
  \/ CreateExpire(1)
  \/ ThrottleRequest(1, SessionId(1), "HIGH")
  \/ RiskThrottle(1)
  \/ RateIncr(1)
  \/ RateExpire(1)
  \/ Handler(1)
  \/ ReplySent(1)
  \/ Abandon(1)
  \/ (AllIdle /\ now + RATE_WINDOW_SECONDS <= RateHorizon /\ Tick(RATE_WINDOW_SECONDS))

SpecAbandon == Init /\ [][NextAbandon]_vars

HasTtl(kv) == \A k \in DOMAIN kv : kv[k].exp # NoExpiry

\* C22: whatever prefix of its writes an abandoned create or enforceRateLimit
\* has made, each key it wrote (session:{id}, subject:sessions:{S},
\* rate:{id}) carries a finite TTL once no call is in progress
C22_PartialWritesExpire ==
  AllIdle => HasTtl(sessionKV) /\ HasTtl(indexKV) /\ HasTtl(rateKV)

\* the request of worker p has just left enforceDeviceBinding
DeviceBindingDone(p) ==
  loc[p].route = "plugin" /\ loc[p].hooks = <<"requireSession", "enforceDeviceBinding">>

\* the X-Device-Id header is there and names the device of the session
DeviceMatches(p) == loc[p].hdrDev # "" /\ loc[p].hdrDev = loc[p].session.deviceId

\* C23: a request passes enforceDeviceBinding exactly when its X-Device-Id
\* header equals the deviceId of its session; every other request is answered
\* 401 and goes no further
C23_DeviceBindingExact ==
  \A p \in Procs :
    DeviceBindingDone(p) =>
      /\ (pc[p] # "replied") <=> DeviceMatches(p)
      /\ pc[p] = "replied" => loc[p].status = 401

\* the token of the request verifies and the store holds an unrevoked record
SessionLive(token) ==
  /\ token # 0
  /\ SessionGet(token) # NullSession
  /\ SessionGet(token).revokedAt = 0

\* C24: a request passes the session check exactly when its token verifies and
\* SessionService.get returns a record with revokedAt unset, and then that
\* record is attached; otherwise it is answered 401 with nothing attached
C24_SessionCheckExact ==
  [][\A p \in Procs :
       (pc[p] = "requireSession" /\ pc'[p] # "requireSession") =>
         IF SessionLive(loc[p].token)
           THEN /\ pc'[p] = After(loc[p].route, 1)
                /\ loc'[p].status = 0
                /\ loc'[p].session = SessionGet(loc[p].token)
           ELSE /\ pc'[p] = "replied"
                /\ loc'[p].status = 401
                /\ loc'[p].session = NullSession]_vars

\* a verifying token whose session is gone from the store has been answered 401
C24_Witness ==
  \E p \in Procs :
    /\ loc[p].hooks = <<"requireSession">>
    /\ loc[p].token # 0
    /\ Absent(loc[p].token)
    /\ pc[p] = "replied"
    /\ loc[p].status = 401

\* the request of worker p has left riskThrottle (enforceRateLimit included)
ThrottleDone(p) ==
  /\ loc[p].hooks # << >>
  /\ loc[p].hooks[Len(loc[p].hooks)] = "riskThrottle"
  /\ pc[p] \notin {"rt_incr", "rt_expire"}

\* C25: riskThrottle rejects a CRITICAL session without incrementing; otherwise
\* the cap is LIMITS[riskLevel] (10 without an entry), a count above the cap is
\* answered 429 with no later hook, and a count within the cap proceeds
C25_ThrottleOutcome ==
  \A p \in Procs :
    ThrottleDone(p) =>
      IF loc[p].session.riskLevel = "CRITICAL"
        THEN pc[p] = "replied" /\ loc[p].status # 0 /\ loc[p].count = 0
        ELSE /\ loc[p].limit = Limit(loc[p].session.riskLevel)
             /\ loc[p].count > loc[p].limit => (pc[p] = "replied" /\ loc[p].status = 429)
             /\ loc[p].count <= loc[p].limit => (pc[p] # "replied" /\ loc[p].status = 0)

\* the step in which enforceRateLimit of worker p finds its count above the cap
Rejects(p) ==
  /\ pc[p] \in {"rt_incr", "rt_expire"}
  /\ pc'[p] = "replied"
  /\ loc'[p].count > loc'[p].limit

\* the EXPIRE of the window's first request is still to come
ExpirePending(sid) ==
  \E q \in Procs : pc'[q] = "rt_expire" /\ loc'[q].session.id = sid

\* C26: a rejected session is admitted again: at a rejection the key
\* rate:{sessionId} is due to expire within 60 s (or the first request of the
\* window is about to set that expiry), an expiry once set is never
\* moved by a later increment, and an increment that finds no key starts a
\* window with count 1
C26_WindowEnds ==
  [][\A p \in Procs :
       LET sid == loc[p].session.id
       IN /\ Rejects(p) =>
               \/ ExpirePending(sid)
               \/ /\ sid \in DOMAIN rateKV'
                  /\ rateKV'[sid].exp # NoExpiry
                  /\ rateKV'[sid].exp <= now + RATE_WINDOW_SECONDS
          /\ (pc[p] = "rt_incr" /\ pc'[p] \notin {"rt_incr", "idle"}) =>
               IF sid \in DOMAIN rateKV
                 THEN sid \in DOMAIN rateKV' /\ rateKV'[sid].exp = rateKV[sid].exp
                 ELSE sid \in DOMAIN rateKV' /\ rateKV'[sid].val = 1]_vars

\* ----------------------------------------------------- AntiReplayStore
MaxAccepted == 3
ReplayHorizon == 5
Nonces == {1, 2}
\* params.ttlSeconds: left out, or given
TtlParams == {Undefined, 2}
\* CryptoPolicyRegistry.active(): the active policy's replay window and skew
REPLAY_WINDOW_SECONDS == 3
ALLOWED_CLOCK_SKEW_MS == 1000
\* how far behind Date.now() the timestamp of a call is
StampAges == {0, 2000}

Abs(x) == IF x < 0 THEN 0 - x ELSE x

notReplay ==
  <<sessionKV, indexKV, nextId, auditLog, pc, stack, loc, issued, revokedOne, revokedAll,
    raced, criticalDone, rateKV, entKV, opaKV, policyOn, reqs, admitLog, winAdmits, lastHit,
    chainEvents, chainLast, forged, forgedBy, audits, jobs, auditDb, faults,
    riskSignals, riskProfile, userRoleTable>>

\* a plain SET always replies OK
SetOk(kv, k) == TRUE

\* the reply of SET key value NX EX ttl is OK exactly when the key is not there
SetNxOk(kv, k) == k \notin DOMAIN kv

\* SET key value NX EX ttl
SetNxEx(kv, k, v, ttl) == IF SetNxOk(kv, k) THEN SetEx(kv, k, v, ttl) ELSE kv

\* sha256(nonce), the key under the anti-replay namespace; distinct nonces
\* give distinct keys
NonceKey(nonce) == nonce

Raised(nonce, message) == [op |-> "verifyAndStore", value |-> nonce, events |-> {message}]

\* AntiReplayStore.verifyAndStore({nonce, timestamp, ttlSeconds}) called on
\* instance p
verifyAndStore(p, nonce, timestamp, ttlSeconds) ==
  LET ttl == IF ttlSeconds = Undefined THEN REPLAY_WINDOW_SECONDS ELSE ttlSeconds
      key == NonceKey(nonce)
  IN /\ Len(accepted) < MaxAccepted
     /\ IF Abs(DateNow - timestamp) > ALLOWED_CLOCK_SKEW_MS
          THEN /\ returned' = Raised(nonce, "timestamp outside allowed window")
               /\ UNCHANGED <<nonceKV, accepted>>
          ELSE /\ nonceKV' = SetNxEx(nonceKV, key, 1, ttl)
               /\ IF SetNxOk(nonceKV, key)
                    THEN /\ accepted' = Append(accepted, [nonce |-> nonce, at |-> now,
                                                          ttl |-> ttl, by |-> p,
                                                          timestamp |-> timestamp])
                         /\ returned' = [op |-> "verifyAndStore", value |-> nonce, events |-> {}]
                    ELSE /\ returned' = Raised(nonce, "nonce already used")
                         /\ accepted' = accepted
     /\ UNCHANGED <<now, notReplay>>

\* time passes; Redis drops the nonces whose expiry has come
ReplayTick ==
  /\ now < ReplayHorizon
  /\ now' = now + 1
  /\ nonceKV' = Live(nonceKV, now + 1)
  /\ UNCHANGED <<accepted, returned, notReplay>>

NextReplay ==
  \/ \E p \in Procs, nonce \in Nonces, age \in StampAges, ttlSeconds \in TtlParams :
       verifyAndStore(p, nonce, DateNow - age, ttlSeconds)
  \/ ReplayTick

SpecReplay == Init /\ [][NextReplay]_vars

\* C27: of the calls of verifyAndStore with one nonce, from whatever instance,
\* no two return without raising unless the later one is made at least
\* ttlSeconds after the earlier one
C27_OneAcceptPerWindow ==
  \A i, j \in DOMAIN accepted :
    (i < j /\ accepted[i].nonce = accepted[j].nonce) =>
      accepted[j].at >= accepted[i].at + accepted[i].ttl

\* a nonce accepted from one instance has been refused to the other within
\* its ttl, and accepted again once the ttl had passed
C27_Witness ==
  /\ \E i, j \in DOMAIN accepted :
       /\ i < j
       /\ accepted[i].nonce = accepted[j].nonce
       /\ accepted[i].by # accepted[j].by
       /\ now < accepted[j].at + accepted[j].ttl
  /\ returned = Raised(accepted[Len(accepted)].nonce, "nonce already used")

\* ------------------------------------------------- entitlement life cycle
Ended == {"REVOKED", "EXPIRED"}

NextLife ==
  \/ \E dev \in DeviceIds : CreateSet(1, "u1", dev, TRUE)
  \/ CreateSadd(1)
  \/ CreateExpire(1)
  \/ \E p \in Procs : EntGrantCreate(p, "u1")
  \/ \E p \in Procs : EntGrantAudit(p)
  \/ \E p \in Procs, e \in DOMAIN entKV : EntRevokeUpdate(p, e)
  \/ \E p \in Procs : EntRevokeSessions(p)
  \/ \E p \in Procs : RevokeAllDelKeys(p)
  \/ \E p \in Procs : RevokeAllDelIndex(p)
  \/ \E p \in Procs : RevokeAllAudit(p)
  \/ \E p \in Procs : EntRevokeAuditSessions(p)
  \/ \E p \in Procs : EntRevokeAudit(p)

SpecLife == Init /\ [][NextLife]_vars

\* ------------------------------------------------- getActiveForSubject
ActiveHorizon == 3
\* params.validUntil of a grant, in ms: none, or an instant
ValidUntils == {0, 1000, 2000}

\* isEntitlementActive(entitlement)
isEntitlementActive(ent) ==
  IF ent.status # "ACTIVE" THEN FALSE
  ELSE IF ent.validFrom > DateNow THEN FALSE
  ELSE IF ent.validUntil # 0 /\ ent.validUntil < DateNow THEN FALSE
  ELSE TRUE

\* prisma.entitlement.findMany({ where: { subjectId, status: "ACTIVE" } })
FindActive(subj) ==
  {e \in DOMAIN entKV : entKV[e].subjectId = subj /\ entKV[e].status = "ACTIVE"}

\* getActiveForSubject(subjectId) is called
GetActiveCall(p, subj) ==
  /\ CanStart(p)
  /\ loc' = [loc EXCEPT ![p] = [NoLocals EXCEPT !.subj = subj]]
  /\ Goto(p, "ga_find")
  /\ UNCHANGED <<now, sessionKV, indexKV, nextId, auditLog,
                 issued, revokedOne, revokedAll, raced, criticalDone, other>>

\* the records of findMany, filtered by isEntitlementActive, are returned
GetActiveFind(p) ==
  /\ pc[p] = "ga_find"
  /\ returned' = [op |-> "getActiveForSubject", value |-> 0,
                  events |-> {e \in FindActive(loc[p].subj) : isEntitlementActive(entKV[e])}]
  /\ Return(p)
  /\ UNCHANGED <<now, sessionKV, indexKV, nextId, auditLog,
                 issued, revokedOne, revokedAll, raced, criticalDone,
                 rateKV, entKV, opaKV, policyOn, reqs, admitLog, winAdmits, lastHit,
                 chainEvents, chainLast, forged, forgedBy, audits,
                 jobs, auditDb, faults, riskSignals, riskProfile, nonceKV, accepted,
                 userRoleTable>>

NextActive ==
  \/ \E subj \in Subjects, validUntil \in ValidUntils : EntGrantWith(1, subj, validUntil)
  \/ EntGrantAudit(1)
  \/ \E e \in DOMAIN entKV : EntRevokeUpdate(1, e)
  \/ EntRevokeSessions(1)
  \/ EntRevokeAuditSessions(1)
  \/ EntRevokeAudit(1)
  \/ \E subj \in Subjects : GetActiveCall(1, subj)
  \/ GetActiveFind(1)
  \/ (now < ActiveHorizon /\ Tick(1))

SpecActive == Init /\ [][NextActive]_vars

\* the entitlements of subj that are ACTIVE with validFrom <= now and, where
\* validUntil is set, now < validUntil
ActiveNow(subj) ==
  {e \in DOMAIN entKV :
     /\ entKV[e].subjectId = subj
     /\ entKV[e].status = "ACTIVE"
     /\ entKV[e].validFrom <= DateNow
     /\ entKV[e].validUntil # 0 => DateNow < entKV[e].validUntil}

\* C29: getActiveForSubject(subjectId) returns exactly the stored entitlements
\* of the subject that are ACTIVE with validFrom <= now and, when validUntil is
\* set, now < validUntil
C29_ActiveExactly ==
  [][\A p \in Procs :
       (pc[p] = "ga_find" /\ pc'[p] # "ga_find") =>
         returned'.events = ActiveNow(loc[p].subj)]_vars

\* ------------------------------------------------------- adaptiveAccess
\* the signals adaptiveAccess pushes
SignalIpChanged == [type |-> "IP_ANOMALY", severity |-> 7]
SignalUserAgent == [type |-> "DEVICE_MISMATCH", severity |-> 6]

\* the User-Agent header of a request; "" stands for a request without one
UserAgents == {"", "ua1"}

\* a stored session carries neither ip nor userAgent: both read as undefined
SessionIp(session) == ""
SessionUserAgent(session) == ""

\* the signals adaptiveAccess collects for a request
adaptiveSignals(userAgent, session) ==
  (IF ReqIp # SessionIp(session) THEN <<SignalIpChanged>> ELSE << >>)
  \o (IF userAgent # SessionUserAgent(session) THEN <<SignalUserAgent>> ELSE << >>)

\* adaptiveAccess(req, reply) on a request to which the session sid is
\* attached: RiskService.assessSession evaluates the signals (below CRITICAL it
\* only returns the profile), the profile is attached to the request, and at
\* HIGH the X-Auth-Challenge header is set
adaptiveAccess(sid, userAgent) ==
  /\ ~Absent(sid)
  /\ LET normalized == Min(SumScore(adaptiveSignals(userAgent, SessionGet(sid))), 100)
     IN /\ classify(normalized) # "CRITICAL"
        /\ riskProfile' = [score |-> normalized, level |-> classify(normalized),
                           sessionId |-> sid]
  /\ UNCHANGED <<now, sessionKV, indexKV, nextId, auditLog, pc, stack, loc,
                 issued, revokedOne, revokedAll, raced, criticalDone,
                 rateKV, entKV, opaKV, policyOn, reqs, admitLog, winAdmits, lastHit,
                 chainEvents, chainLast, forged, forgedBy, audits,
                 jobs, auditDb, faults, riskSignals, more>>

NextAdaptive ==
  \/ \E dev \in DeviceIds : CreateSet(1, "u1", dev, TRUE)
  \/ CreateSadd(1)
  \/ CreateExpire(1)
  \/ \E sid \in issued, userAgent \in UserAgents : adaptiveAccess(sid, userAgent)
  \/ \E p \in Procs, sid \in issued : CallRevoke(p, sid)
  \/ \E p \in Procs : RevokeDel(p)
  \/ \E p \in Procs : RevokeSrem(p)
  \/ \E p \in Procs : RevokeAudit(p)

SpecAdaptive == Init /\ [][NextAdaptive]_vars

\* C30: a session for which the evaluation of a request computed riskLevel
\* HIGH or CRITICAL is revoked: no later get finds it
C30_HighRiskRevoked ==
  riskProfile.level \in {"HIGH", "CRITICAL"} => Absent(riskProfile.sessionId)

\* requests that need a session, with sessions created and revoked meanwhile
NextSession ==
  \/ \E dev \in DeviceIds : CreateSet(1, "u1", dev, TRUE)
  \/ CreateSadd(1)
  \/ CreateExpire(1)
  \/ \E p \in Procs, token \in issued \cup {0} : StartRequest(p, "cae", token, "d1", FALSE)
  \/ \E p \in Procs : RequireSession(p)
  \/ \E p \in Procs : CaeEvaluate(p)
  \/ \E p \in Procs : CaeUpdateRisk(p)
  \/ \E p \in Procs : UpdateRiskSet(p)
  \/ \E p \in Procs : CaeAttach(p)
  \/ \E p \in Procs : Handler(p)
  \/ \E p \in Procs : ReplySent(p)
  \/ \E p \in Procs, sid \in issued : CallRevoke(p, sid)
  \/ \E p \in Procs : RevokeDel(p)
  \/ \E p \in Procs : RevokeSrem(p)
  \/ \E p \in Procs : RevokeAudit(p)

SpecSession == Init /\ [][NextSession]_vars

\* ------------------------------------------------- the adaptive policy
\* a request of the stored session s1 reaches buildOpaInput with riskLevel
\* `level` and mfaVerified `mfa` on its request.session
PolicyRequest(p, level, mfa) ==
  /\ CanStart(p)
  /\ ~Absent(SessionId(1))
  /\ loc' = [loc EXCEPT ![p] =
               [NoLocals EXCEPT !.route = "policy", !.token = SessionId(1),
                                !.session = [SessionGet(SessionId(1)) EXCEPT
                                               !.riskLevel = level, !.mfaVerified = mfa]]]
  /\ pc' = [pc EXCEPT ![p] = Chain("policy")[1]]
  /\ UNCHANGED <<now, sessionKV, indexKV, nextId, auditLog, stack,
                 issued, revokedOne, revokedAll, raced, criticalDone, other>>

NextPolicy ==
  \/ \E p \in Procs, level \in RiskLevels, mfa \in BOOLEAN : PolicyRequest(p, level, mfa)
  \/ \E p \in Procs : BuildOpaInput(p)
  \/ \E p \in Procs : OpaAuthorize(p)
  \/ \E p \in Procs : Handler(p)
  \/ \E p \in Procs : ReplySent(p)
  \/ \E p \in Procs : CallRevoke(p, SessionId(1))
  \/ \E p \in Procs : RevokeDel(p)
  \/ \E p \in Procs : RevokeSrem(p)
  \/ \E p \in Procs : RevokeAudit(p)

SpecPolicy == InitPipe /\ [][NextPolicy]_vars

\* C31: the policy allows exactly at LOW, and at MEDIUM with mfa_verified; a
\* request it denies below CRITICAL is answered 403 and the denial leaves the
\* session store as it is
C31_PolicyDecision ==
  [][\A p \in Procs :
       (pc[p] = "opaAuthorize" /\ pc'[p] # "opaAuthorize") =>
         LET input == loc[p].opaInput
             allowed == \/ input.riskLevel = "LOW"
                        \/ input.riskLevel = "MEDIUM" /\ input.mfa_verified
         IN /\ allowed <=> loc'[p].decision.allow
            /\ allowed => (pc'[p] = "handler" /\ loc'[p].status = 0)
            /\ (~allowed /\ input.riskLevel # "CRITICAL") =>
                 /\ pc'[p] = "replied"
                 /\ loc'[p].status = 403
                 /\ sessionKV' = sessionKV]_vars

\* a request at MEDIUM without mfa_verified has been answered 403 and its
\* session is in the store
C31_Witness ==
  \E p \in Procs :
    /\ pc[p] = "replied"
    /\ loc[p].status = 403
    /\ loc[p].opaInput = [riskLevel |-> "MEDIUM", mfa_verified |-> FALSE]
    /\ ~Absent(loc[p].token)

\* C32: when the handler of a protected route runs, the request carries the
\* session, the risk profile and the policy input, and the riskLevel of that
\* input is the level continuousAccessEvaluation computed in this request
C32_HandlerContext ==
  \A p \in Procs :
    (pc[p] = "handler" /\ loc[p].route = "plugin") =>
      /\ loc[p].session # NullSession
      /\ loc[p].risk \in RiskLevels
      /\ loc[p].opaInput # NoInput
      /\ loc[p].opaInput.riskLevel = loc[p].risk

\* the first request of a session stored at LOW is at its handler with the
\* level MEDIUM it was evaluated at
C32_Witness ==
  \E p \in Procs :
    /\ pc[p] = "handler"
    /\ loc[p].route = "plugin"
    /\ reqs = 1
    /\ loc[p].risk = "MEDIUM"
    /\ loc[p].opaInput.riskLevel = "MEDIUM"

\* ------------------------------------------------- enforce(action)
UserRole == {"SUPER_ADMIN", "ADMIN", "SECURITY_ADMIN", "FINANCE_ADMIN", "OPERATOR",
             "DEVELOPER", "AUDITOR", "USER", "GUEST"}

RolePermissions ==
  [r \in UserRole |->
     CASE r = "SUPER_ADMIN" ->
            {"READ_USERS", "WRITE_USERS", "DELETE_USERS", "MANAGE_ROLES", "READ_FINANCIALS",
             "APPROVE_PAYMENTS", "DEPLOY_CODE", "READ_AUDIT_LOGS", "START_PRIVILEGED_SESSION",
             "END_PRIVILEGED_SESSION", "READ_CONTENT", "WRITE_CONTENT"}
       [] r = "ADMIN" -> {"READ_USERS", "WRITE_USERS", "MANAGE_ROLES", "DEPLOY_CODE",
                          "READ_CONTENT", "WRITE_CONTENT"}
       [] r = "SECURITY_ADMIN" -> {"READ_USERS", "READ_AUDIT_LOGS", "START_PRIVILEGED_SESSION",
                                   "END_PRIVILEGED_SESSION"}
       [] r = "FINANCE_ADMIN" -> {"READ_FINANCIALS", "APPROVE_PAYMENTS"}
       [] r = "OPERATOR" -> {"READ_CONTENT", "WRITE_CONTENT"}
       [] r = "DEVELOPER" -> {"DEPLOY_CODE", "READ_CONTENT", "WRITE_CONTENT"}
       [] r = "AUDITOR" -> {"READ_AUDIT_LOGS", "READ_USERS"}
       [] r = "USER" -> {"READ_CONTENT", "WRITE_CONTENT"}
       [] OTHER -> {"READ_CONTENT"}]

RoleHierarchy ==
  [r \in UserRole |->
     CASE r = "SUPER_ADMIN" -> {"ADMIN", "SECURITY_ADMIN", "FINANCE_ADMIN", "DEVELOPER",
                                "AUDITOR", "OPERATOR", "USER"}
       [] r = "ADMIN" -> {"DEVELOPER", "OPERATOR", "USER"}
       [] r = "OPERATOR" -> {"USER"}
       [] r = "DEVELOPER" -> {"USER"}
       [] OTHER -> {}]

\* walk(r) over the roles still to visit
RECURSIVE walk(_, _)
walk(todo, visited) ==
  IF todo \subseteq visited THEN UNION {RolePermissions[r] : r \in visited}
  ELSE walk(UNION {RoleHierarchy[r] : r \in todo \ visited}, visited \cup todo)

computeEffectivePermissions(role) == walk({role}, {})

\* a user without roles, or with no role that carries the action, fails
checkRBAC(user, action) ==
  /\ user # NoUser
  /\ \E r \in user.roles : action \in computeEffectivePermissions(r)

\* the users and actions requests are made with
EnforceUsers ==
  {NoUser} \cup {[id |-> "u1", roles |-> rs] : rs \in {{}, {"GUEST"}, {"FINANCE_ADMIN"}, {"OPERATOR", "AUDITOR"}}}

EnforceActions == {"READ_CONTENT", "APPROVE_PAYMENTS"}

\* what await evaluatePolicy(input) can come to: the engine's answer, or the
\* rejection of the fetch (engine unreachable, timeout)
PolicyOutcomes == {"allow", "deny", "throw"}

\* auditLog(entry): the entry is written before the returned promise settles
AuditEntry(l, decision, mechanism) ==
  [req |-> l.req, user |-> l.user.id, action |-> l.action, decision |-> decision,
   mechanism |-> mechanism]

\* a request of `user` arrives on a route guarded by enforce(action)
EnforceRequest(p, user, action) ==
  /\ CanStart(p)
  /\ reqs < MaxRequests
  /\ reqs' = reqs + 1
  /\ loc' = [loc EXCEPT ![p] = [NoLocals EXCEPT !.route = "enforce", !.user = user,
                                               !.action = action, !.req = reqs + 1]]
  /\ pc' = [pc EXCEPT ![p] = Chain("enforce")[1]]
  /\ UNCHANGED <<now, sessionKV, indexKV, nextId, auditLog, stack,
                 issued, revokedOne, revokedAll, raced, criticalDone,
                 rateKV, entKV, opaKV, policyOn, admitLog, winAdmits, lastHit, aux>>

\* the preHandler up to its first await: the unauthenticated denial, the RBAC
\* fast path, or the call of evaluatePolicy
EnforceCall(p) ==
  /\ pc[p] = "enforce"
  /\ LET l == Enter(loc[p], "enforce")
     IN IF l.user = NoUser
          THEN /\ auditLog' = auditLog \cup {AuditEntry(l, "DENY", "")}
               /\ EndHook(p, [l EXCEPT !.status = 401])
          ELSE IF checkRBAC(l.user, l.action)
            THEN /\ auditLog' = auditLog \cup {AuditEntry(l, "ALLOW", "RBAC")}
                 /\ EndHook(p, l)
            ELSE /\ loc' = [loc EXCEPT ![p] = l]
                 /\ Goto(p, "en_policy")
                 /\ UNCHANGED auditLog
  /\ UNCHANGED <<now, sessionKV, indexKV, nextId,
                 issued, revokedOne, revokedAll, raced, criticalDone, other>>

\* const result = await evaluatePolicy(input), and what follows it
EnforcePolicy(p, outcome) ==
  /\ pc[p] = "en_policy"
  /\ LET l == loc[p]
     IN CASE outcome = "allow" ->
               /\ auditLog' = auditLog \cup {AuditEntry(l, "ALLOW", "PBAC/OPA")}
               /\ EndHook(p, l)
          [] outcome = "deny" ->
               /\ auditLog' = auditLog \cup {AuditEntry(l, "DENY", "")}
               /\ EndHook(p, [l EXCEPT !.status = 403])
          [] OTHER ->
               /\ UNCHANGED auditLog
               /\ EndHook(p, [l EXCEPT !.status = 500])
  /\ UNCHANGED <<now, sessionKV, indexKV, nextId,
                 issued, revokedOne, revokedAll, raced, criticalDone, other>>

\* the client disconnects or the deadline passes while the request is being
\* served: nothing in the preHandler looks at it
Cancel(p) ==
  /\ pc[p] \in {"enforce", "en_policy", "handler"}
  /\ ~loc[p].cancelled
  /\ loc' = [loc EXCEPT ![p].cancelled = TRUE]
  /\ UNCHANGED <<now, sessionKV, indexKV, nextId, auditLog, pc, stack,
                 issued, revokedOne, revokedAll, raced, criticalDone, other>>

NextEnforce ==
  \/ \E p \in Procs, user \in EnforceUsers, action \in EnforceActions :
       EnforceRequest(p, user, action)
  \/ \E p \in Procs : EnforceCall(p)
  \/ \E p \in Procs, outcome \in PolicyOutcomes : EnforcePolicy(p, outcome)
  \/ \E p \in Procs : Cancel(p)
  \/ \E p \in Procs : Handler(p)
  \/ \E p \in Procs : ReplySent(p)

SpecEnforce == Init /\ [][NextEnforce]_vars

\* C33: once a request is cancelled, no audit entry with decision ALLOW is
\* written for it
C33_NoAllowAfterCancel ==
  [][\A p \in Procs :
       loc[p].cancelled =>
         \A e \in auditLog' \ auditLog : ~(e.req = loc[p].req /\ e.decision = "ALLOW")]_vars

\* the preHandler of worker p returns or throws in this step
EnforceEnds(p) == pc[p] \in {"enforce", "en_policy"} /\ pc'[p] \notin {"enforce", "en_policy"}

\* C34: every invocation of the preHandler writes exactly one audit entry; the
\* request proceeds exactly when a user is present and RBAC or the policy
\* allows; the policy is asked only when RBAC fails; no user is 401, a denied
\* user 403
C34_EnforceContract ==
  [][\A p \in Procs :
       EnforceEnds(p) =>
         LET l == loc[p]
             rbac == checkRBAC(l.user, l.action)
             proceeds == pc'[p] = "handler"
             written == {e \in auditLog' : e.req = l.req}
         IN /\ Cardinality(written) = 1
            /\ pc[p] = "en_policy" => (l.user # NoUser /\ ~rbac)
            /\ rbac => proceeds
            /\ proceeds => (rbac \/ \E e \in written : e.mechanism = "PBAC/OPA")
            /\ l.user = NoUser => (~proceeds /\ loc'[p].status = 401)
            /\ (l.user # NoUser /\ ~proceeds) => loc'[p].status = 403]_vars

\* ------------------------------------------------- role assignment
\* { role, incompatibleWith } of SoDRules, one pair per incompatible role
SoDRules ==
  {<<"FINANCE_ADMIN", "DEVELOPER">>, <<"FINANCE_ADMIN", "SECURITY_ADMIN">>,
   <<"DEVELOPER", "AUDITOR">>}

\* violatesSoD(roles).violates
violatesSoD(roles) == \E rule \in SoDRules : rule[1] \in roles /\ rule[2] \in roles

\* validateRoleAssignment(existingRoles, rolesToAdd).allowed
validateRoleAssignment(existingRoles, rolesToAdd) == ~violatesSoD(existingRoles \cup rolesToAdd)

\* the role lists assignRoles is called with
RoleLists == {{"FINANCE_ADMIN"}, {"DEVELOPER"}, {"AUDITOR"}, {"FINANCE_ADMIN", "AUDITOR"},
              {"FINANCE_ADMIN", "DEVELOPER"}}

notRoles ==
  <<now, sessionKV, indexKV, nextId, auditLog, issued, revokedOne, revokedAll, raced,
    criticalDone, rateKV, entKV, opaKV, policyOn, reqs, admitLog, winAdmits, lastHit,
    chainEvents, chainLast, forged, forgedBy, audits, jobs, auditDb, faults,
    riskSignals, riskProfile, nonceKV, accepted>>

\* assignRoles(userId, roles) is called
AssignCall(p, userId, roles) ==
  /\ CanStart(p)
  /\ loc' = [loc EXCEPT ![p] = [NoLocals EXCEPT !.subj = userId, !.roles = roles]]
  /\ Goto(p, "as_find")
  /\ UNCHANGED <<returned, userRoleTable, notRoles>>

\* await prisma.userRole.findMany({ where: { userId } }), validateRoleAssignment
AssignFind(p) ==
  /\ pc[p] = "as_find"
  /\ LET existingRoles == userRoleTable[loc[p].subj]
     IN IF validateRoleAssignment(existingRoles, loc[p].roles)
          THEN /\ loc' = [loc EXCEPT ![p].existingRoles = existingRoles]
               /\ Goto(p, "as_upsert")
               /\ UNCHANGED returned
          ELSE /\ returned' = [op |-> "assignRoles", value |-> 0, events |-> {"SoD violation"}]
               /\ Return(p)
  /\ UNCHANGED <<userRoleTable, notRoles>>

\* await prisma.userRole.upsert(...) for the next role of the list; after the
\* last one the call returns
AssignUpsert(p) ==
  /\ pc[p] = "as_upsert"
  /\ IF loc[p].roles = {}
       THEN /\ returned' = [op |-> "assignRoles", value |-> 0, events |-> {}]
            /\ Return(p)
            /\ UNCHANGED userRoleTable
       ELSE \E role \in loc[p].roles :
              /\ userRoleTable' = [userRoleTable EXCEPT ![loc[p].subj] = @ \cup {role}]
              /\ loc' = [loc EXCEPT ![p].roles = @ \ {role}]
              /\ UNCHANGED <<pc, stack, returned>>
  /\ UNCHANGED notRoles

NextRoles ==
  \/ \E p \in Procs, userId \in Subjects, roles \in RoleLists : AssignCall(p, userId, roles)
  \/ \E p \in Procs : AssignFind(p)
  \/ \E p \in Procs : AssignUpsert(p)

SpecRoles == Init /\ [][NextRoles]_vars

\* C35: the roles stored for a user never contain a pair that SoDRules
\* declares incompatible
C35_NoIncompatiblePair == \A u \in Subjects : ~violatesSoD(userRoleTable[u])

\* ------------------------------- AntiReplayStore over a storage interface
\* the AntiReplayConfig the store is constructed with
RegisterConfig == [allowedClockSkewMs |-> 1000, ttlMs |-> 2000]

notRegister ==
  <<sessionKV, indexKV, nextId, auditLog, issued, revokedOne, revokedAll,
    raced, criticalDone, rateKV, entKV, opaKV, policyOn, reqs, admitLog, winAdmits, lastHit,
    chainEvents, chainLast, forged, forgedBy, audits, jobs, auditDb, faults,
    riskSignals, riskProfile, userRoleTable>>

\* verifyAndRegister(nonce, timestamp) up to its first await: Date.now(), the
\* skew assertion, the hash, and the call of storage.exists
RegisterCall(p, nonce, timestamp) ==
  /\ CanStart(p)
  /\ Len(accepted) < MaxAccepted
  /\ IF Abs(DateNow - timestamp) <= RegisterConfig.allowedClockSkewMs
       THEN /\ loc' = [loc EXCEPT ![p] = [NoLocals EXCEPT !.sid = NonceKey(nonce), !.t = DateNow]]
            /\ Goto(p, "vr_exists")
            /\ UNCHANGED returned
       ELSE /\ returned' = [op |-> "verifyAndRegister", value |-> nonce,
                            events |-> {"Timestamp outside allowed clock skew"}]
            /\ UNCHANGED <<pc, stack, loc>>
  /\ UNCHANGED <<now, nonceKV, accepted, notRegister>>

\* await this.storage.exists(nonceHash): a record that is stored and unexpired
RegisterExists(p) ==
  /\ pc[p] = "vr_exists"
  /\ IF loc[p].sid \in DOMAIN Live(nonceKV, now)
       THEN /\ returned' = [op |-> "verifyAndRegister", value |-> loc[p].sid,
                            events |-> {"Replay detected: nonce already used"}]
            /\ Return(p)
       ELSE /\ Goto(p, "vr_store")
            /\ UNCHANGED <<loc, returned>>
  /\ UNCHANGED <<now, nonceKV, accepted, notRegister>>

\* await this.storage.store({ nonceHash, timestamp, expiresAt: now + ttlMs }),
\* after which the call returns
RegisterStore(p) ==
  /\ pc[p] = "vr_store"
  /\ LET expiresAt == (loc[p].t + RegisterConfig.ttlMs) \div 1000
     IN /\ nonceKV' = [k \in DOMAIN nonceKV \cup {loc[p].sid} |->
                         IF k = loc[p].sid THEN [val |-> 1, exp |-> expiresAt] ELSE nonceKV[k]]
        /\ accepted' = Append(accepted, [nonce |-> loc[p].sid, at |-> now,
                                         ttl |-> expiresAt - now, by |-> p])
  /\ returned' = [op |-> "verifyAndRegister", value |-> loc[p].sid, events |-> {}]
  /\ Return(p)
  /\ UNCHANGED <<now, notRegister>>

\* time passes; the storage drops the records whose expiresAt has come
RegisterTick ==
  /\ now < ReplayHorizon
  /\ now' = now + 1
  /\ nonceKV' = Live(nonceKV, now + 1)
  /\ UNCHANGED <<accepted, returned, pc, stack, loc, notRegister>>

\* the calls present one message again and again
RegisterNonces == {1}

NextRegister ==
  \/ \E p \in Procs, nonce \in RegisterNonces, age \in StampAges :
       RegisterCall(p, nonce, DateNow - age)
  \/ \E p \in Procs : RegisterExists(p)
  \/ \E p \in Procs : RegisterStore(p)
  \/ RegisterTick

SpecRegister == Init /\ [][NextRegister]_vars

\* C36: of the calls of verifyAndRegister with one nonce, no two return
\* without raising unless the record the earlier one stored has expired when
\* the later one returns
C36_OneRegisterPerRecord ==
  \A i, j \in DOMAIN accepted :
    (i < j /\ accepted[i].nonce = accepted[j].nonce) =>
      accepted[j].at >= accepted[i].at + accepted[i].ttl

\* ------------------------------- one message presented more than once
\* params.ttlSeconds of the calls: left out, or a window shorter than the skew
\* allowance on both sides of the timestamp
ShortTtlParams == {Undefined, 1, 2}

\* params.timestamp of the messages, in milliseconds
Timestamps == {0, 1000}

NextPresent ==
  \/ \E p \in Procs, nonce \in Nonces, timestamp \in Timestamps, ttlSeconds \in ShortTtlParams :
       verifyAndStore(p, nonce, timestamp, ttlSeconds)
  \/ ReplayTick

SpecPresent == Init /\ [][NextPresent]_vars

\* C37: no (nonce, timestamp) pair is accepted by verifyAndStore twice
C37_PairAcceptedOnce ==
  \A i, j \in DOMAIN accepted :
    (i < j /\ accepted[i].nonce = accepted[j].nonce) =>
      accepted[i].timestamp # accepted[j].timestamp

\* ------------------------------------------------- the ceiling on risk
\* the request of worker p went through enforceDeviceBinding without a reply
PassedDeviceBinding(p) ==
  /\ loc[p].route = "plugin"
  /\ \/ Len(loc[p].hooks) > 2
     \/ Len(loc[p].hooks) = 2 /\ loc[p].status = 0

\* C38: for a request that has passed enforceDeviceBinding the severities of
\* its signals sum to at most 9, its score is at most 45 and its level is LOW
\* or MEDIUM; the evaluation never takes the branch that terminates the session
C38_RiskCeiling ==
  \A p \in Procs :
    PassedDeviceBinding(p) =>
      LET signals == collectRiskSignals(loc[p].hdrDev, loc[p].auto, loc[p].session)
      IN /\ SumScore(signals) <= 9 * 5
         /\ EvaluateLevel(signals) \in {"LOW", "MEDIUM"}
         /\ loc[p].risk \in {"", "LOW", "MEDIUM"}
         /\ pc[p] \notin {"cae_assess_revoke", "cae_assess_audit", "cae_revoke", "cae_reply"}

\* a request with the automation header has been evaluated at the ceiling:
\* score 45, level MEDIUM
C38_Witness ==
  \E p \in Procs :
    /\ PassedDeviceBinding(p)
    /\ loc[p].auto
    /\ SumScore(collectRiskSignals(loc[p].hdrDev, loc[p].auto, loc[p].session)) = 45
    /\ loc[p].risk = "MEDIUM"
    /\ pc[p] = "cae_update"

\* ------------------------------------------------- calls of enforceRateLimit
\* C39: every call of enforceRateLimit, rejected or not, adds one to the
\* counter of its key and is given the new value; it returns without raising
\* exactly when that value is within its limit, so that within one lifetime
\* of the key at most `limit` calls made with that limit return
C39_LimitPerKeyLifetime ==
  [][\A p \in Procs :
       LET sid == loc[p].session.id
       IN /\ (pc[p] = "rt_incr" /\ pc'[p] # "rt_incr") =>
               /\ sid \in DOMAIN rateKV'
               /\ rateKV'[sid].val = RateCount(sid) + 1
               /\ loc'[p].count = rateKV'[sid].val
          /\ (pc[p] \in {"rt_incr", "rt_expire"} /\ pc'[p] \notin {"rt_incr", "rt_expire"}) =>
               /\ (loc'[p].status = 0) <=> (loc'[p].count <= loc'[p].limit)
               /\ loc'[p].status = 0 =>
                    /\ loc'[p].count <= loc'[p].limit
                    /\ WinAdmitted(winAdmits', sid, loc'[p].session.riskLevel) <= loc'[p].limit]_vars

\* the key holds one more than the limit: `limit` calls have returned in its
\* lifetime and the call that was given limit + 1 has raised
C39_Witness ==
  \E p \in Procs :
    /\ pc[p] = "replied"
    /\ loc[p].route = "throttle"
    /\ loc[p].status # 0
    /\ loc[p].count = loc[p].limit + 1
    /\ RateCount(loc[p].session.id) = loc[p].count
    /\ WinAdmitted(winAdmits, loc[p].session.id, loc[p].session.riskLevel) = loc[p].limit

\* ------------------------------------------------- POST /refresh
\* the payload of a refresh token that belongs to session s
RefreshPayload(s) ==
  [userId |-> SessionGet(s).subjectId, deviceId |-> SessionGet(s).deviceId, sessionId |-> s]

\* generateNewTokens(payload): const { userId, email, deviceId } = payload, and
\* the payload signed is built from these three, iat and exp
generateNewTokens(payload) ==
  [userId |-> payload.userId, deviceId |-> payload.deviceId, sessionId |-> Undefined]

\* POST /refresh with the refresh token of session s: the token verifies and
\* the rotated tokens are set as cookies. returned.value is the sessionId claim
\* of the access token minted, returned.events the session it was minted for
Refresh(p, s) ==
  /\ CanStart(p)
  /\ ~Absent(s)
  /\ returned' = [op |-> "refresh", value |-> generateNewTokens(RefreshPayload(s)).sessionId,
                  events |-> {s}]
  /\ UNCHANGED <<now, sessionKV, indexKV, nextId, auditLog, pc, stack, loc,
                 issued, revokedOne, revokedAll, raced, criticalDone,
                 rateKV, entKV, opaKV, policyOn, reqs, admitLog, winAdmits, lastHit,
                 chainEvents, chainLast, forged, forgedBy, audits,
                 jobs, auditDb, faults, riskSignals, riskProfile, nonceKV, accepted,
                 userRoleTable>>

\* jwt.sign refuses a payload that carries exp together with the expiresIn
\* option: the catch of the route answers 401 and no token is minted
RefreshSignThrows(p, s) ==
  /\ CanStart(p)
  /\ ~Absent(s)
  /\ returned' = [op |-> "refresh", value |-> 0, events |-> {}]
  /\ UNCHANGED <<now, sessionKV, indexKV, nextId, auditLog, pc, stack, loc,
                 issued, revokedOne, revokedAll, raced, criticalDone,
                 rateKV, entKV, opaKV, policyOn, reqs, admitLog, winAdmits, lastHit,
                 chainEvents, chainLast, forged, forgedBy, audits,
                 jobs, auditDb, faults, riskSignals, riskProfile, nonceKV, accepted,
                 userRoleTable>>

\* a request arrives with the access token /refresh has minted; loc.sid is the
\* session the token was minted for (0 on a request with a token from login)
AccessRequest(p) ==
  /\ CanStart(p)
  /\ returned.op = "refresh"
  /\ returned.events # {}
  /\ reqs < MaxRequests
  /\ reqs' = reqs + 1
  /\ loc' = [loc EXCEPT ![p] = [NoLocals EXCEPT !.route = "auth", !.token = returned.value,
                                               !.sid = CHOOSE s \in returned.events : TRUE]]
  /\ pc' = [pc EXCEPT ![p] = Chain("auth")[1]]
  /\ UNCHANGED <<now, sessionKV, indexKV, nextId, auditLog, stack,
                 issued, revokedOne, revokedAll, raced, criticalDone,
                 rateKV, entKV, opaKV, policyOn, admitLog, winAdmits, lastHit, aux>>

NextRefresh ==
  \/ \E p \in Procs : Refresh(p, SessionId(1))
  \/ \E p \in Procs : RefreshSignThrows(p, SessionId(1))
  \/ \E p \in Procs : AccessRequest(p)
  \/ \E p \in Procs, token \in issued : StartRequest(p, "auth", token, "", FALSE)
  \/ \E p \in Procs : RequireSession(p)
  \/ \E p \in Procs : Handler(p)
  \/ \E p \in Procs : ReplySent(p)
  \/ \E p \in Procs : CallRevoke(p, SessionId(1))
  \/ \E p \in Procs : RevokeDel(p)
  \/ \E p \in Procs : RevokeSrem(p)
  \/ \E p \in Procs : RevokeAudit(p)

SpecRefresh == InitPipe /\ [][NextRefresh]_vars

\* C40: a request carrying the access token that /refresh minted from a
\* refresh token of session s passes the session check exactly when s is in
\* the store and not revoked
C40_RefreshedTokenFollowsSession ==
  [][\A p \in Procs :
       (loc[p].route = "auth" /\ loc[p].sid # 0
          /\ pc[p] = "requireSession" /\ pc'[p] # "requireSession") =>
         ((pc'[p] = "handler") <=> SessionLive(loc[p].sid))]_vars

====
